---- MODULE Spec2Model ----
(***************************************************************************)
(* Model of glimpse's browser automation session engine                    *)
(* (src/glimpse/api/browser_use/browser/session.py).                       *)
(*                                                                         *)
(* Strings that the code inspects character by character (URLs, hosts,     *)
(* allowed_domains entries) are sequences of one-character strings.        *)
(***************************************************************************)
EXTENDS Integers, Sequences, FiniteSets, TLC

NULL == "None"
\* no page: pages are numbered from 1
NoPage == 0
\* no URL, the empty string
NoUrl == <<>>
\* no tab index given
NoIndex == -1

(***************************************************************************)
(* Bounds                                                                  *)
(***************************************************************************)
\* longest generated host name, in characters
MaxHostLen == 3
\* longest generated allowed_domains entry, in characters
MaxPatLen == 3

(***************************************************************************)
(* Character-level helpers (str methods used by the guard)                 *)
(***************************************************************************)
UpperLetters == {"E", "V", "S"}

LowerLetters ==
  {"a", "b", "c", "d", "e", "f", "g", "h", "i", "j", "k", "l", "m",
   "n", "o", "p", "q", "r", "s", "t", "u", "v", "w", "x", "y", "z"}

Digits == {"0", "8"}

\* str.lower() on one character
LowerChar(c) ==
  CASE c = "E" -> "e"
    [] c = "V" -> "v"
    [] c = "S" -> "s"
    [] OTHER -> c

\* str.lower()
Lower(s) == [i \in 1..Len(s) |-> LowerChar(s[i])]

\* s.find(c) over a set of characters: the first index holding one of them, 0 if none
FindFirst(s, C) ==
  IF \E i \in 1..Len(s) : s[i] \in C
    THEN CHOOSE i \in 1..Len(s) : s[i] \in C /\ \A j \in 1..(i - 1) : s[j] \notin C
    ELSE 0

\* s.rfind(c): the last index holding c, 0 if none
FindLast(s, c) ==
  IF \E i \in 1..Len(s) : s[i] = c
    THEN CHOOSE i \in 1..Len(s) : s[i] = c /\ \A j \in (i + 1)..Len(s) : s[j] # c
    ELSE 0

\* s[i:] with i counted from 1
From(s, i) == SubSeq(s, i, Len(s))

\* s.startswith(p)
StartsWith(s, p) == Len(s) >= Len(p) /\ SubSeq(s, 1, Len(p)) = p

\* s.endswith(p)
EndsWith(s, p) == Len(s) >= Len(p) /\ SubSeq(s, Len(s) - Len(p) + 1, Len(s)) = p

(***************************************************************************)
(* fnmatch.fnmatch(name, pat) on POSIX: '*' matches any run of characters, *)
(* '?' any one character, every other character itself.                    *)
(***************************************************************************)
RECURSIVE fnmatch(_, _)
fnmatch(name, pat) ==
  IF pat = <<>> THEN name = <<>>
  ELSE IF Head(pat) = "*"
    THEN fnmatch(name, Tail(pat)) \/ (name # <<>> /\ fnmatch(Tail(name), pat))
  ELSE IF Head(pat) = "?"
    THEN name # <<>> /\ fnmatch(Tail(name), Tail(pat))
  ELSE name # <<>> /\ Head(name) = Head(pat) /\ fnmatch(Tail(name), Tail(pat))

(***************************************************************************)
(* urllib.parse.urlparse(url): scheme, netloc and the hostname property    *)
(***************************************************************************)
SchemeChars == LowerLetters \cup UpperLetters \cup Digits \cup {"+", "-", "."}

\* index of the ':' that ends a valid scheme, 0 when the URL has no scheme
SchemeEnd(url) ==
  LET i == FindFirst(url, {":"})
  IN IF i > 1
        /\ url[1] \in (LowerLetters \cup UpperLetters)
        /\ \A j \in 1..(i - 1) : url[j] \in SchemeChars
       THEN i
       ELSE 0

\* urlparse(url).scheme
UrlScheme(url) ==
  IF SchemeEnd(url) = 0 THEN <<>> ELSE Lower(SubSeq(url, 1, SchemeEnd(url) - 1))

\* what follows the scheme's ':'
AfterScheme(url) == From(url, SchemeEnd(url) + 1)

\* urlparse(url).netloc: between '//' and the first '/', '?' or '#'
UrlNetloc(url) ==
  LET rest == AfterScheme(url)
  IN IF StartsWith(rest, <<"/", "/">>)
       THEN LET body == From(rest, 3)
                stop == FindFirst(body, {"/", "?", "#"})
            IN IF stop = 0 THEN body ELSE SubSeq(body, 1, stop - 1)
       ELSE <<>>

\* urlparse(url).hostname: netloc after the last '@', before the first ':', lower-cased;
\* None when empty, written as the empty string
UrlHostname(url) ==
  LET netloc   == UrlNetloc(url)
      at       == FindLast(netloc, "@")
      hostinfo == From(netloc, at + 1)
      colon    == FindFirst(hostinfo, {":"})
      host     == IF colon = 0 THEN hostinfo ELSE SubSeq(hostinfo, 1, colon - 1)
  IN Lower(host)

(***************************************************************************)
(* Literal strings of the source                                           *)
(***************************************************************************)
ABOUT_BLANK == <<"a", "b", "o", "u", "t", ":", "b", "l", "a", "n", "k">>

InternalSchemes ==
  { <<"c", "h", "r", "o", "m", "e">>,
    <<"b", "r", "a", "v", "e">>,
    <<"e", "d", "g", "e">>,
    <<"c", "h", "r", "o", "m", "e", "-", "e", "x", "t", "e", "n", "s", "i", "o", "n">> }

(***************************************************************************)
(* BrowserSession._is_url_allowed                                          *)
(***************************************************************************)
\* variant: the whole authority, user-info and port included, taken as the domain
GuardDomain_netloc(url) == Lower(UrlNetloc(url))

\* the hostname the guard compares: parsed_url.hostname.lower(), '' when absent
GuardDomain(url) == Lower(UrlHostname(url))

\* variant: a "*.D" entry matched as a plain suffix D of the host
EntryAllows_suffix(domain, entry) ==
  LET allowed_domain == Lower(entry)
  IN IF StartsWith(allowed_domain, <<"*", ".">>)
       THEN EndsWith(domain, From(allowed_domain, 3))
     ELSE IF \E i \in 1..Len(allowed_domain) : allowed_domain[i] = "*"
       THEN fnmatch(domain, allowed_domain)
     ELSE domain = allowed_domain

\* one iteration of the loop over allowed_domains
EntryAllows(domain, entry) ==
  LET allowed_domain == Lower(entry)
  IN IF \E i \in 1..Len(allowed_domain) : allowed_domain[i] = "*"
       THEN IF StartsWith(allowed_domain, <<"*", ".">>)
              THEN domain = From(allowed_domain, 3) \/ fnmatch(domain, allowed_domain)
              ELSE fnmatch(domain, allowed_domain)
       ELSE domain = allowed_domain

\* variant: urlparse accepts every string
urlparse_raises_never(url) == FALSE

\* urlparse(url) raises ValueError('Invalid IPv6 URL') when the authority holds '[' without
\* ']' or ']' without '['
urlparse_raises(url) ==
  (\E i \in 1..Len(UrlNetloc(url)) : UrlNetloc(url)[i] = "[")
    # (\E i \in 1..Len(UrlNetloc(url)) : UrlNetloc(url)[i] = "]")

_is_url_allowed(url, allowed_domains) ==
  IF allowed_domains = <<>> THEN TRUE
  ELSE IF urlparse_raises(url) THEN FALSE  \* except Exception: return False
  ELSE IF url = ABOUT_BLANK \/ UrlScheme(url) \in InternalSchemes THEN TRUE
  ELSE IF GuardDomain(url) = <<>> THEN FALSE
  ELSE \E k \in 1..Len(allowed_domains) : EntryAllows(GuardDomain(url), allowed_domains[k])

(***************************************************************************)
(* URLs the guard is asked about.  A URL is formatted from its components  *)
(* and handed to the guard as a string, which the guard parses again.      *)
(***************************************************************************)
HTTPS == <<"h", "t", "t", "p", "s">>
CHROME == <<"c", "h", "r", "o", "m", "e">>
ABOUT == <<"a", "b", "o", "u", "t">>
EXAMPLE_COM == <<"e", "x", "a", "m", "p", "l", "e", ".", "c", "o", "m">>
SUB_EXAMPLE_COM == <<"s", "u", "b", ".">> \o EXAMPLE_COM
EVILEXAMPLE_COM == <<"e", "v", "i", "l">> \o EXAMPLE_COM
EVIL_COM == <<"e", "v", "i", "l", ".", "c", "o", "m">>
STAR_DOT_EXAMPLE_COM == <<"*", ".">> \o EXAMPLE_COM

\* all strings over the alphabet A of length lo..hi
Strings(A, lo, hi) == UNION {[1..n -> A] : n \in lo..hi}

HostChars == {"e", "v", "."}
PatChars == {"*", ".", "e"}

GuardHosts ==
  Strings(HostChars, 0, MaxHostLen)
    \cup {EXAMPLE_COM, SUB_EXAMPLE_COM, EVILEXAMPLE_COM, <<"E">>, <<"S", ".", "E">>, <<"V", "e">>}

GuardEntries ==
  Strings(PatChars, 1, MaxPatLen)
    \cup {EXAMPLE_COM, STAR_DOT_EXAMPLE_COM, <<"E">>, <<"*", ".", "E">>}

\* allowed_domains values: unset/empty, one entry, or an entry behind one that never matches
GuardAllowLists ==
  {<<>>} \cup {<<e>> : e \in GuardEntries} \cup {<<EVIL_COM, e>> : e \in {<<"e">>, <<"*", ".", "e">>}}

\* what a URL carries besides scheme and host; each may hold an allowed domain
Undecorated == [userinfo |-> <<>>, port |-> <<>>, path |-> <<>>, query |-> <<>>, fragment |-> <<>>]

Decorations ==
  LET none == Undecorated
  IN {none}
     \cup {[none EXCEPT !.userinfo = x] : x \in {<<"e">>, EXAMPLE_COM, <<"e", ":", "e">>, <<"e", "@", "e">>}}
     \cup {[none EXCEPT !.port = x] : x \in {<<"8">>, <<"e">>}}
     \cup {[none EXCEPT !.path = x] : x \in {<<"/", "e">>, <<"/">> \o EXAMPLE_COM}}
     \cup {[none EXCEPT !.query = <<"e">>], [none EXCEPT !.fragment = <<"e">>]}

\* the string of a URL with an authority part: scheme://userinfo@host:port/path?query#fragment
FormatUrl(scheme, host, d) ==
  scheme \o <<":", "/", "/">>
    \o (IF d.userinfo = <<>> THEN <<>> ELSE d.userinfo \o <<"@">>)
    \o host
    \o (IF d.port = <<>> THEN <<>> ELSE <<":">> \o d.port)
    \o d.path
    \o (IF d.query = <<>> THEN <<>> ELSE <<"?">> \o d.query)
    \o (IF d.fragment = <<>> THEN <<>> ELSE <<"#">> \o d.fragment)

\* the string of a URL without an authority part: scheme:path?query#fragment
FormatOpaqueUrl(scheme, path, d) ==
  scheme \o <<":">> \o path
    \o (IF d.query = <<>> THEN <<>> ELSE <<"?">> \o d.query)
    \o (IF d.fragment = <<>> THEN <<>> ELSE <<"#">> \o d.fragment)

\* hosts that are tried with every decoration
DecoratedHosts == {<<>>, <<"e">>, <<"v">>, <<"E">>, EXAMPLE_COM, EVIL_COM}

BLANK == <<"b", "l", "a", "n", "k">>

\* authorities urlparse does not accept
MalformedHosts == {<<"[">>, <<"[", "e">>, <<"e", "]">>}

\* the components of the URLs the guard is asked about
GuardParts ==
  {[scheme |-> s, authority |-> TRUE, host |-> h, opaque |-> <<>>, d |-> Undecorated] :
     s \in {HTTPS, CHROME}, h \in MalformedHosts} \cup
  {[scheme |-> HTTPS, authority |-> TRUE, host |-> h, opaque |-> <<>>, d |-> Undecorated] : h \in GuardHosts}
    \cup {[scheme |-> HTTPS, authority |-> TRUE, host |-> h, opaque |-> <<>>, d |-> d] :
             h \in DecoratedHosts, d \in Decorations}
    \cup {[scheme |-> CHROME, authority |-> TRUE, host |-> h, opaque |-> <<>>, d |-> d] :
             h \in {<<"v">>, EVIL_COM}, d \in Decorations}
    \cup {[scheme |-> ABOUT, authority |-> FALSE, host |-> <<>>, opaque |-> o, d |-> d] :
             o \in {BLANK, <<"e">>},
             d \in {x \in Decorations : x.userinfo = <<>> /\ x.port = <<>> /\ x.path = <<>>}}

UrlOf(parts) ==
  IF parts.authority THEN FormatUrl(parts.scheme, parts.host, parts.d)
  ELSE FormatOpaqueUrl(parts.scheme, parts.opaque, parts.d)

(***************************************************************************)
(* The session.  `session` holds the fields of one BrowserSession; pages   *)
(* are numbered in the order the browser context created them, and         *)
(* session.pages is browser_context.pages, the open pages in that order.   *)
(***************************************************************************)
\* page objects one behaviour may create
MaxTabs == 2
\* pages a browser context may already hold when the session connects to it
MaxAdopt == 1

URL_EXAMPLE == HTTPS \o <<":", "/", "/">> \o EXAMPLE_COM
URL_EVIL == HTTPS \o <<":", "/", "/">> \o EVIL_COM
\* other hosts that only look like example.com
URL_EVILEXAMPLE == HTTPS \o <<":", "/", "/">> \o EVILEXAMPLE_COM
URL_USERINFO_TRICK == HTTPS \o <<":", "/", "/">> \o EXAMPLE_COM \o <<"@">> \o EVIL_COM

\* the URLs pages of the model show
SessionUrls == {ABOUT_BLANK, URL_EXAMPLE, URL_EVIL}
\* further targets a caller may ask for
OtherHostUrls == {URL_EVILEXAMPLE, URL_USERINFO_TRICK}

\* browser_profile.allowed_domains
SessionAllowLists == {<<>>, <<EXAMPLE_COM>>}

Range(f) == {f[i] : i \in DOMAIN f}

\* self._is_url_allowed(url) for the URLs and allow-lists of the session model,
\* evaluated once
SessionGuard ==
  [a \in SessionAllowLists |->
    [u \in SessionUrls \cup OtherHostUrls |-> _is_url_allowed(u, a)]]

url_allowed(s, url) == SessionGuard[s.allowed_domains][url]

\* no BrowserStateSummary
NoSummary == [url |-> NoUrl]

\* the session as constructed: BrowserSession(...) field defaults
NewSession(allowed) ==
  [ initialized    |-> FALSE,
    browser_context |-> NULL,
    contexts       |-> 0,        \* browser contexts the session has set up
    bridge         |-> FALSE,    \* _BrowserUseonTabVisibilityChange is exposed on the context
    created        |-> 0,        \* page objects created so far
    pages          |-> <<>>,     \* browser_context.pages
    url            |-> <<>>,     \* page.url, by page number
    agent_current_page |-> NoPage,
    human_current_page |-> NoPage,
    browser_state_summary |-> NoSummary,          \* NoSummary until the attribute is first set
    cached_browser_state_summary |-> NoSummary,
    allowed_domains |-> allowed ]

(***************************************************************************)
(* Results of a call: the session after it, the exception it raised        *)
(* ("ok" when it returned normally), and the page (ret) or the state       *)
(* summary it returned, if any.  go_backs counts the go_back() calls made, *)
(* found_disallowed tells that _check_and_handle_navigation saw a rejected *)
(* URL, fault what failed inside _get_updated_state: "page" when the page   *)
(* no longer answered, "build" when building the summary raised.           *)
(***************************************************************************)
Ok(s, page) ==
  [s |-> s, err |-> "ok", ret |-> page, summary |-> NoSummary, go_backs |-> 0, found_disallowed |-> FALSE,
   fault |-> "none"]
Raise(s, e) ==
  [s |-> s, err |-> e, ret |-> NoPage, summary |-> NoSummary, go_backs |-> 0, found_disallowed |-> FALSE,
   fault |-> "none"]

\* what the browser does, not the session: inputs of one call
Envs ==
  [ adopt      : UNION {[1..n -> SessionUrls] : n \in 0..MaxAdopt},  \* pages found in the context at start
    net_fails  : BOOLEAN,   \* _wait_for_stable_network raises
    back_to    : SessionUrls \cup {NoUrl},  \* where page.go_back() gets within its 10 ms, NoUrl: nowhere
    page_dead  : BOOLEAN,   \* page.evaluate('1') raises
    build_fails : BOOLEAN ] \* building the state summary raises

QuietEnv == [adopt |-> <<>>, net_fails |-> FALSE, back_to |-> NoUrl, page_dead |-> FALSE, build_fails |-> FALSE]

\* page.is_closed()
is_closed(s, p) == p \notin Range(s.pages)

\* `not page or page.is_closed()`
Gone(s, p) == p = NoPage \/ is_closed(s, p)

\* browser_context.new_page(): a blank page at the end of browser_context.pages
new_page(s) ==
  [s EXCEPT !.created = @ + 1,
            !.pages = Append(@, s.created + 1),
            !.url = Append(@, ABOUT_BLANK)]

\* page.close()
close_page(s, p) ==
  IF Gone(s, p) THEN s
  ELSE [s EXCEPT !.pages = SelectSeq(@, LAMBDA q : q # p),
                 !.url[p] = ABOUT_BLANK]

\* page.goto(url)
goto(s, p, u) == [s EXCEPT !.url[p] = u]

\* page.go_back(): to the previous entry of the page's history, which the browser keeps;
\* NoUrl when there is none
page_go_back(s, p, previous) ==
  IF previous = NoUrl THEN s
  ELSE [s EXCEPT !.url[p] = previous]

(***************************************************************************)
(* Session lifecycle                                                       *)
(***************************************************************************)
\* setup_browser_connection + setup_browser_context: keep the context the session has,
\* otherwise connect or launch and take the context with the pages it already holds
setup_browser_context(s, env) ==
  IF s.browser_context # NULL THEN s
  ELSE [s EXCEPT !.browser_context = "context",
                 !.contexts = @ + 1,
                 !.created = Len(env.adopt),
                 !.pages = [i \in 1..Len(env.adopt) |-> i],
                 !.url = env.adopt]

\* the pages of the context, a blank page opened when it has none
with_foreground_page(s) == IF s.pages = <<>> THEN new_page(s) ELSE s

\* variant: only the agent reference is initialised
set_current_pages_agent_only(s) ==
  [s EXCEPT !.agent_current_page = IF @ # NoPage THEN @ ELSE s.pages[1]]

\* self.agent_current_page = self.agent_current_page or foreground_page, and the same
\* for human_current_page; the foreground page is pages[0]
set_current_pages(s) ==
  [s EXCEPT !.agent_current_page = IF @ # NoPage THEN @ ELSE s.pages[1],
            !.human_current_page = IF @ # NoPage THEN @ ELSE s.pages[1]]

\* browser_context.expose_binding refuses a name the context already exposes
expose_binding(s) ==
  IF s.bridge THEN Raise(s, "PlaywrightError")
  ELSE Ok([s EXCEPT !.bridge = TRUE], NoPage)

\* setup_foreground_tab_detection: pick or open the foreground page, then expose the
\* focus bridge
setup_foreground_tab_detection(s) ==
  expose_binding(set_current_pages(with_foreground_page(s)))

\* self.initialized = True once the set-up steps have returned
set_initialized(f) ==
  IF f.err # "ok" THEN f
  ELSE Ok([f.s EXCEPT !.initialized = TRUE], NoPage)

start(s, env) ==
  set_initialized(setup_foreground_tab_detection(setup_browser_context(s, env)))

\* the wrapper of @require_initialization replaces a missing or closed agent page by
\* pages[0], or by None when there is no page
reset_agent_page(s) ==
  IF Gone(s, s.agent_current_page)
    THEN [s EXCEPT !.agent_current_page = IF s.pages # <<>> THEN s.pages[1] ELSE NoPage]
  ELSE s

\* self.create_new_tab() is a coroutine the synchronous wrapper never awaits: no tab is
\* opened and the assert that follows fails
assert_agent_page(s) ==
  IF Gone(s, s.agent_current_page) THEN Raise(s, "AssertionError")
  ELSE Ok(s, NoPage)

\* variant: the wrapper without its test of self.initialized
require_initialization_unguarded(s) == assert_agent_page(reset_agent_page(s))

\* the wrapper of @require_initialization, up to the call of the wrapped method
require_initialization(s) ==
  IF ~s.initialized THEN Raise(s, "RuntimeError")
  ELSE assert_agent_page(reset_agent_page(s))

(***************************************************************************)
(* Tab management and navigation                                           *)
(***************************************************************************)
\* the value a call returns is dropped
returns_none(r) == IF r.err # "ok" THEN r ELSE [r EXCEPT !.ret = NoPage]

\* variant: the human reference follows every new tab
assign_new_tab_human_follows(s) ==
  Ok([s EXCEPT !.agent_current_page = s.pages[Len(s.pages)],
               !.human_current_page = s.pages[Len(s.pages)]], s.pages[Len(s.pages)])

\* create_new_tab, the update of the two references: the new page is the last of s.pages
assign_new_tab(s) ==
  Ok([s EXCEPT !.agent_current_page = s.pages[Len(s.pages)],
               !.human_current_page = IF Gone(s, @) THEN s.pages[Len(s.pages)] ELSE @],
     s.pages[Len(s.pages)])

\* create_new_tab from new_page() to the update of the two references
open_new_tab(s) == assign_new_tab(new_page(s))

\* create_new_tab(): without a url there is neither a navigation nor a wait
create_blank_tab(s) ==
  IF s.browser_context = NULL THEN Raise(s, "AttributeError") ELSE open_new_tab(s)

\* variant: closed references are dropped and not replaced
normalize_pages_drop_only(s) ==
  [s EXCEPT !.agent_current_page = IF Gone(s, @) THEN NoPage ELSE @,
            !.human_current_page = IF Gone(s, @) THEN NoPage ELSE @]

\* get_current_page: closed references are dropped, then each missing reference takes
\* the other's page
normalize_pages(s) ==
  LET h1 == IF Gone(s, s.human_current_page) THEN NoPage ELSE s.human_current_page
      a1 == IF Gone(s, s.agent_current_page) THEN NoPage ELSE s.agent_current_page
      a2 == IF a1 # NoPage THEN a1 ELSE h1
      h2 == IF h1 # NoPage THEN h1 ELSE a2
  IN [s EXCEPT !.agent_current_page = a2, !.human_current_page = h2]

\* get_current_page: both references take the tab create_new_tab() opened
adopt_new_tab(c) ==
  IF c.err # "ok" THEN c
  ELSE Ok([c.s EXCEPT !.agent_current_page = c.ret, !.human_current_page = c.ret], c.ret)

\* get_current_page: the agent page, else the first open page, else a new tab
pick_current_page(s) ==
  IF s.agent_current_page # NoPage THEN Ok(s, s.agent_current_page)
  ELSE IF s.pages # <<>>
    THEN Ok([s EXCEPT !.agent_current_page = s.pages[1],
                      !.human_current_page = s.pages[1]], s.pages[1])
  ELSE adopt_new_tab(create_blank_tab(s))

current_page_after_start(r) ==
  IF r.err # "ok" THEN r ELSE pick_current_page(normalize_pages(r.s))

get_current_page(s, env) ==
  current_page_after_start(IF s.browser_context = NULL THEN start(s, env) ELSE Ok(s, NoPage))

\* go_back on the page get_current_page gave; every exception is caught and logged
go_back_on(g, previous) ==
  [Ok(IF g.err # "ok" THEN g.s ELSE page_go_back(g.s, g.ret, previous), NoPage)
     EXCEPT !.go_backs = 1]

go_back(s, env) == go_back_on(get_current_page(s, env), env.back_to)

\* raise URLNotAllowedError once go_back has returned
raise_URLNotAllowedError(b) ==
  [Raise(b.s, "URLNotAllowedError") EXCEPT !.go_backs = b.go_backs, !.found_disallowed = TRUE]

_check_and_handle_navigation(s, page, env) ==
  IF url_allowed(s, s.url[page]) THEN Ok(s, NoPage)
  ELSE raise_URLNotAllowedError(go_back(s, env))

\* the wait itself, on the page it listens on: whether it raised
network_wait(g, env) ==
  IF g.err # "ok" THEN g
  ELSE IF env.net_fails THEN Raise(g.s, "Exception")
  ELSE Ok(g.s, NoPage)

_wait_for_stable_network(s, env) == network_wait(get_current_page(s, env), env)

\* the try block of _wait_for_page_and_frames_load after the network wait
check_loaded_url(n, page, env) ==
  IF n.err # "ok" THEN n ELSE _check_and_handle_navigation(n.s, page, env)

\* variant: URLNotAllowedError is swallowed like every other exception
except_every_Exception(c) ==
  [Ok(c.s, NoPage) EXCEPT !.go_backs = c.go_backs, !.found_disallowed = c.found_disallowed]

\* the except clauses of _wait_for_page_and_frames_load: URLNotAllowedError is raised
\* again, every other exception is logged
except_URLNotAllowedError(c) ==
  IF c.err = "URLNotAllowedError" THEN c
  ELSE [Ok(c.s, NoPage) EXCEPT !.go_backs = c.go_backs, !.found_disallowed = c.found_disallowed]

wait_for_page(g, env) ==
  IF g.err # "ok" THEN g
  ELSE except_URLNotAllowedError(
         check_loaded_url(_wait_for_stable_network(g.s, env), g.ret, env))

_wait_for_page_and_frames_load(s, env) == wait_for_page(get_current_page(s, env), env)

\* the asserts that end create_new_tab(url), on the result w of the wait for page p
assert_new_tab(w, p, url) ==
  IF w.err # "ok" THEN w
  ELSE IF w.s.human_current_page = NoPage \/ w.s.agent_current_page = NoPage
          \/ w.s.url[w.s.agent_current_page] # url
    THEN [w EXCEPT !.err = "AssertionError"]
  ELSE [w EXCEPT !.ret = p]

\* create_new_tab(url) after the new tab o is open: goto, wait, asserts
load_new_tab(o, url, env) ==
  IF url = NoUrl THEN o
  ELSE assert_new_tab(_wait_for_page_and_frames_load(goto(o.s, o.ret, url), env), o.ret, url)

create_new_tab(s, url, env) ==
  IF url # NoUrl /\ ~url_allowed(s, url) THEN Raise(s, "BrowserError")
  ELSE IF s.browser_context = NULL THEN Raise(s, "AttributeError")
  ELSE load_new_tab(open_new_tab(s), url, env)

\* a method under @require_initialization is the wrapper, then its body
switch_tab_body(s, tab_index) ==
  IF s.pages = <<>> \/ tab_index >= Len(s.pages) THEN Raise(s, "IndexError")
  ELSE Ok([s EXCEPT !.agent_current_page = s.pages[tab_index + 1]], s.pages[tab_index + 1])

switch_tab(s, tab_index) ==
  LET w == require_initialization(s)
  IN IF w.err # "ok" THEN w ELSE switch_tab_body(w.s, tab_index)

switch_to_tab_body(s, page_id) ==
  IF page_id >= Len(s.pages) THEN Raise(s, "BrowserError")
  ELSE LET page == s.pages[page_id + 1]
       IN IF ~url_allowed(s, s.url[page]) THEN Raise(s, "BrowserError")
          ELSE Ok([s EXCEPT !.agent_current_page = page, !.human_current_page = page], page)

switch_to_tab(s, page_id) ==
  LET w == require_initialization(s)
  IN IF w.err # "ok" THEN w ELSE switch_to_tab_body(w.s, page_id)

\* variant: close_tab without the get_current_page() that follows the close
close_page_only(g, env) ==
  IF g.err # "ok" THEN g ELSE Ok(close_page(g.s, g.ret), NoPage)

\* close_tab once the page to close is known: page.close(), then get_current_page()
close_page_and_refresh(g, env) ==
  IF g.err # "ok" THEN g
  ELSE returns_none(get_current_page(close_page(g.s, g.ret), env))

\* tab_index is NoIndex when the caller passes none
close_tab_body(s, tab_index, env) ==
  IF s.pages = <<>> THEN Ok(s, NoPage)
  ELSE close_page_and_refresh(
         IF tab_index = NoIndex THEN get_current_page(s, env)
         ELSE IF tab_index >= Len(s.pages) THEN Raise(s, "IndexError")
         ELSE Ok(s, s.pages[tab_index + 1]),
         env)

close_tab(s, tab_index, env) ==
  LET w == require_initialization(s)
  IN IF w.err # "ok" THEN w ELSE close_tab_body(w.s, tab_index, env)

\* close_current_tab after the close: switch to the first remaining tab
switch_to_first_tab(s) ==
  IF s.browser_context = NULL THEN Raise(s, "AttributeError")
  ELSE IF s.pages # <<>> THEN returns_none(switch_to_tab(s, 0))
  ELSE Ok(s, NoPage)

\* closing a None page raises inside the try and is logged
close_current_tab(s) ==
  switch_to_first_tab(
    [close_page(s, s.agent_current_page)
       EXCEPT !.agent_current_page = NoPage,
              !.human_current_page = IF s.agent_current_page = s.human_current_page
                                       THEN NoPage ELSE @])

navigate_body(s, url, env) ==
  IF s.agent_current_page # NoPage THEN Ok(goto(s, s.agent_current_page, url), NoPage)
  ELSE returns_none(create_new_tab(s, url, env))

navigate(s, url, env) ==
  LET w == require_initialization(s)
  IN IF w.err # "ok" THEN w ELSE navigate_body(w.s, url, env)

refresh_body(s, env) ==
  IF ~Gone(s, s.agent_current_page) THEN Ok(s, NoPage)
  ELSE returns_none(create_new_tab(s, NoUrl, env))

refresh(s, env) ==
  LET w == require_initialization(s)
  IN IF w.err # "ok" THEN w ELSE refresh_body(w.s, env)

\* the script's value is not modelled
execute_javascript_body(s, env) == returns_none(get_current_page(s, env))

execute_javascript(s, env) ==
  LET w == require_initialization(s)
  IN IF w.err # "ok" THEN w ELSE execute_javascript_body(w.s, env)

\* page.goto(url) on the page get_current_page gave
goto_current_page(g, url) ==
  IF g.err # "ok" THEN g ELSE Ok(goto(g.s, g.ret, url), NoPage)

\* variant: navigate_to without the check of the target URL
navigate_to_unchecked(s, url, env) == goto_current_page(get_current_page(s, env), url)

navigate_to(s, url, env) ==
  IF ~url_allowed(s, url) THEN Raise(s, "BrowserError")
  ELSE goto_current_page(get_current_page(s, env), url)

(***************************************************************************)
(* State capture                                                           *)
(***************************************************************************)
\* a BrowserStateSummary, by the url it was built for
BrowserStateSummary(s, page) == [url |-> s.url[page]]

\* variant: a failed build is raised to the caller, the last summary is not used
build_state_summary_reraises(rh, page, env) ==
  IF rh.err = "ok" /\ ~env.build_fails
    THEN [Ok([rh.s EXCEPT !.browser_state_summary = BrowserStateSummary(rh.s, page)], NoPage)
            EXCEPT !.summary = BrowserStateSummary(rh.s, page)]
  ELSE [Raise(rh.s, "Exception") EXCEPT !.fault = "build"]

\* the try block of _get_updated_state and its fallback to the last summary built;
\* rh is the outcome of remove_highlights, which is under @require_initialization
build_state_summary(rh, page, env) ==
  IF rh.err = "ok" /\ ~env.build_fails
    THEN [Ok([rh.s EXCEPT !.browser_state_summary = BrowserStateSummary(rh.s, page)], NoPage)
            EXCEPT !.summary = BrowserStateSummary(rh.s, page)]
  ELSE IF rh.s.browser_state_summary # NoSummary
    THEN [Ok(rh.s, NoPage) EXCEPT !.summary = rh.s.browser_state_summary, !.fault = "build"]
  ELSE [Raise(rh.s, "Exception") EXCEPT !.fault = "build"]

updated_state_of_page(g, env) ==
  IF g.err # "ok" THEN g
  ELSE IF env.page_dead THEN [Raise(g.s, "BrowserError") EXCEPT !.fault = "page"]
  ELSE build_state_summary(require_initialization(g.s), g.ret, env)

_get_updated_state(s, env) == updated_state_of_page(get_current_page(s, env), env)

\* self._cached_browser_state_summary = updated_state; w is the outcome of the wait
cache_state_summary(u, w) ==
  IF u.err # "ok"
    THEN [u EXCEPT !.go_backs = w.go_backs, !.found_disallowed = w.found_disallowed]
  ELSE [Ok([u.s EXCEPT !.cached_browser_state_summary = u.summary], NoPage)
          EXCEPT !.summary = u.summary, !.fault = u.fault,
                 !.go_backs = w.go_backs, !.found_disallowed = w.found_disallowed]

state_summary_after_wait(w, env) ==
  IF w.err # "ok" THEN w ELSE cache_state_summary(_get_updated_state(w.s, env), w)

get_state_summary(s, env) ==
  state_summary_after_wait(_wait_for_page_and_frames_load(s, env), env)

(***************************************************************************)
(* The focus bridge: the callback the page's visibilitychange/focus        *)
(* listeners call with the page they run in                                *)
(***************************************************************************)
\* pages.index(x) raises ValueError for a page that is not open, None included; the
\* index of the agent page is computed only for the log line of a url change
BrowserUseonTabVisibilityChange(s, source_page) ==
  IF Gone(s, s.human_current_page) THEN Raise(s, "ValueError")
  ELSE IF s.url[s.human_current_page] # s.url[source_page] /\ Gone(s, s.agent_current_page)
    THEN Raise([s EXCEPT !.human_current_page = source_page], "ValueError")
  ELSE Ok([s EXCEPT !.human_current_page = source_page], NoPage)

(***************************************************************************)
(* State                                                                   *)
(***************************************************************************)
VARIABLES
  session,    \* the BrowserSession
  last,       \* the call that produced this state: its name, argument and outcome
  g_url,      \* guard check: the URL asked about
  g_parts,    \* guard check: the components g_url was formatted from
  g_allowed,  \* guard check: allowed_domains
  g_result,   \* guard check: "allowed" or "rejected" as _is_url_allowed returned, "unchecked" before
  net,        \* one call of _wait_for_stable_network: its locals and the clock
  mouse,      \* the MouseMovementService, the clock and the files it wrote
  life,       \* a BrowserSession from construction to stop(): what it owns and what is alive
  calc,       \* one call of a method that works on its arguments alone: input and outcome
  load,       \* calls of _wait_for_page_and_frames_load: position, listeners on the page, outcome
  snap        \* get_state_summary and the hashes of clickable elements: what the session keeps, the latest call

sessionVars == <<session, last>>
guardVars == <<g_url, g_parts, g_allowed, g_result>>
vars == <<session, last, g_url, g_parts, g_allowed, g_result, net, mouse, life, calc, load, snap>>

NoCall == [op |-> "init", url |-> NoUrl, index |-> NoIndex, err |-> "ok", ret |-> NoPage,
           summary |-> NoSummary, go_backs |-> 0, found_disallowed |-> FALSE, fault |-> "none"]

NoParts == [scheme |-> <<>>, authority |-> FALSE, host |-> <<>>, opaque |-> <<>>, d |-> Undecorated]

GuardIdle ==
  /\ g_url = <<>>
  /\ g_parts = NoParts
  /\ g_allowed = <<>>
  /\ g_result = "unchecked"

\* no network wait is running
NoWait == [pc |-> "off", now |-> 0, start_time |-> 0, last_activity |-> 0, pending |-> {},
           next_poll |-> 0, idle_time |-> 0, max_time |-> 0, returned_at |-> 0,
           started |-> {}, last_event |-> 0]

NoTime == -1
NoDir == "None"
NoFile == [recording_start_time |-> NoTime, clicks |-> <<>>]
NoMouseCall == [op |-> "init", err |-> "ok", ret |-> <<>>, steps |-> <<>>]

\* no MouseMovementService has been constructed
NoMouse == [svc |-> [_recording_start_time |-> NoTime, _click_events |-> <<>>, _recording_dir |-> NoDir],
            now |-> 0, fs |-> {}, window |-> "off", started_at |-> NoTime, performed |-> <<>>,
            call |-> NoMouseCall]

\* no page load is waited for; the page carries no listener
NoLoad == [pc |-> "off", calls |-> 0, minimum |-> 0, timeout_overwrite |-> NoTime,
           listeners |-> [event \in {"request", "response"} |-> 0], swallowed |-> FALSE,
           wake_at |-> 0, returned_at |-> 0, err |-> "ok"]

\* None for _cached_clickable_element_hashes and for a state summary, and no call made
NoHashes == [url |-> "None", hashes |-> {}]
NoTree == [url |-> "None", is_new |-> [h \in {} |-> "None"]]
NoSnap == [cached_clickable_element_hashes |-> NoHashes, browser_state_summary |-> NoTree,
           cached_browser_state_summary |-> NoTree,
           call |-> [cache_clickable_elements_hashes |-> FALSE, err |-> "init", ret |-> NoTree,
                     hashes_before |-> NoHashes]]

\* no call is followed
NoCalc == [pc |-> "off", input |-> <<>>, output |-> <<>>]

NoPid == 0
NoLifeCall == [op |-> "init", err |-> "ok", attempts |-> <<>>, body_raised |-> FALSE]
NoArgs == [keep_alive |-> "None", wss_url |-> FALSE, cdp_url |-> FALSE, chrome_pid |-> NoPid,
           browser |-> FALSE, browser_context |-> FALSE, user_data_dir |-> FALSE]
NothingOpen == [context |-> FALSE, browser |-> FALSE, process |-> FALSE]

\* no session is followed from construction to stop()
NoLife == [pc |-> "off", args |-> NoArgs, keep_alive |-> "None", wss_url |-> FALSE,
           cdp_url |-> FALSE, chrome_pid |-> NoPid, browser |-> "None",
           browser_context |-> "None", launched |-> FALSE, open |-> NothingOpen,
           err |-> "ok", attempts |-> <<>>, call |-> NoLifeCall]

\* the value of a variable whose subsystem a specification leaves aside
NotFollowed == "not followed"

Init ==
  /\ session \in {NewSession(a) : a \in SessionAllowLists}
  /\ last = NoCall
  /\ GuardIdle
  /\ net = NotFollowed
  /\ mouse = NotFollowed
  /\ life = NotFollowed
  /\ calc = NotFollowed
  /\ load = NotFollowed
  /\ snap = NotFollowed

(***************************************************************************)
(* Calls on the session                                                    *)
(***************************************************************************)
Adoptions == UNION {[1..n -> SessionUrls] : n \in 0..MaxAdopt}

\* the pages start() may find: only a session without a context connects or launches
LazyAdopts == IF session.browser_context = NULL THEN Adoptions ELSE {<<>>}

TabIndexes == 0..(MaxTabs - 1)

\* the call op(url) or op(index) returned or raised as r says
Returns(op, url, index, r) ==
  /\ r.s.created <= MaxTabs
  /\ session' = r.s
  /\ last' = [op |-> op, url |-> url, index |-> index, err |-> r.err, ret |-> r.ret,
              summary |-> r.summary,
              go_backs |-> r.go_backs, found_disallowed |-> r.found_disallowed,
              fault |-> r.fault]
  /\ UNCHANGED <<guardVars, net, mouse, life, calc, load, snap>>

\* last.index of a start() is the number of pages it found in the context
Start ==
  \E a \in LazyAdopts :
    Returns("start", NoUrl, Len(a), start(session, [QuietEnv EXCEPT !.adopt = a]))

GetCurrentPage ==
  \E a \in LazyAdopts :
    Returns("get_current_page", NoUrl, NoIndex, get_current_page(session, [QuietEnv EXCEPT !.adopt = a]))

CreateNewTab ==
  \E u \in {NoUrl} \cup SessionUrls \cup OtherHostUrls, nf \in BOOLEAN :
    /\ u \in OtherHostUrls => session.allowed_domains # <<>>
    /\ u = NoUrl => ~nf  \* a tab without a URL is not waited for
    /\ Returns("create_new_tab", u, NoIndex, create_new_tab(session, u, [QuietEnv EXCEPT !.net_fails = nf]))

SwitchTab ==
  \E i \in TabIndexes : Returns("switch_tab", NoUrl, i, switch_tab(session, i))

SwitchToTab ==
  \E i \in TabIndexes : Returns("switch_to_tab", NoUrl, i, switch_to_tab(session, i))

CloseTab ==
  \E i \in TabIndexes \cup {NoIndex} : Returns("close_tab", NoUrl, i, close_tab(session, i, QuietEnv))

CloseCurrentTab ==
  Returns("close_current_tab", NoUrl, NoIndex, close_current_tab(session))

Navigate ==
  \E u \in SessionUrls : Returns("navigate", u, NoIndex, navigate(session, u, QuietEnv))

NavigateTo ==
  \E u \in SessionUrls \cup OtherHostUrls, a \in LazyAdopts :
    /\ u \in OtherHostUrls => session.allowed_domains # <<>>
    /\ Returns("navigate_to", u, NoIndex, navigate_to(session, u, [QuietEnv EXCEPT !.adopt = a]))

Refresh ==
  Returns("refresh", NoUrl, NoIndex, refresh(session, QuietEnv))

ExecuteJavascript ==
  Returns("execute_javascript", NoUrl, NoIndex, execute_javascript(session, QuietEnv))

GoBack ==
  \E a \in LazyAdopts, b \in SessionUrls \cup {NoUrl} :
    Returns("go_back", NoUrl, NoIndex, go_back(session, [QuietEnv EXCEPT !.adopt = a, !.back_to = b]))

GetStateSummary ==
  \E e \in Envs :
    /\ e.adopt \in LazyAdopts
    /\ e.net_fails => e.back_to = NoUrl
    /\ session.allowed_domains = <<>> => e.back_to = NoUrl  \* go_back() is only called for a disallowed URL
    /\ e.page_dead => ~e.build_fails
    /\ Returns("get_state_summary", NoUrl, NoIndex, get_state_summary(session, e))

GetUpdatedState ==
  \E a \in LazyAdopts, f \in {"none", "page", "build"} :
    Returns("_get_updated_state", NoUrl, NoIndex,
            _get_updated_state(session, [QuietEnv EXCEPT !.adopt = a,
                                                         !.page_dead = (f = "page"),
                                                         !.build_fails = (f = "build")]))

\* a focus or visibilitychange event of an open page reaches the exposed callback
TabVisibilityChange ==
  \E p \in Range(session.pages) :
    /\ session.bridge
    /\ Returns("_BrowserUseonTabVisibilityChange", NoUrl, p - 1, BrowserUseonTabVisibilityChange(session, p))

Next ==
  \/ Start
  \/ GetCurrentPage
  \/ CreateNewTab
  \/ SwitchTab
  \/ SwitchToTab
  \/ CloseTab
  \/ CloseCurrentTab
  \/ Navigate
  \/ NavigateTo
  \/ Refresh
  \/ ExecuteJavascript
  \/ GoBack
  \/ GetStateSummary
  \/ GetUpdatedState
  \/ TabVisibilityChange

Spec == Init /\ [][Next]_vars

(***************************************************************************)
(* close_current_tab on a started session with several open tabs           *)
(***************************************************************************)
\* tabs open when close_current_tab is called
MaxOpenTabs == 3

\* a started session with n open tabs, the agent on tab a and the human on tab h
StartedSession(allowed, urls, a, h) ==
  [NewSession(allowed) EXCEPT !.initialized = TRUE, !.browser_context = "context",
                              !.contexts = 1, !.bridge = TRUE,
                              !.created = Len(urls), !.pages = [i \in 1..Len(urls) |-> i],
                              !.url = urls,
                              !.agent_current_page = a, !.human_current_page = h,
                              !.cached_browser_state_summary = NoSummary]

InitTabs ==
  /\ session \in UNION { {StartedSession(allowed, urls, a, h) :
                            allowed \in SessionAllowLists, urls \in [1..n -> SessionUrls],
                            a \in 1..n, h \in 1..n} : n \in 1..MaxOpenTabs }
  /\ last = NoCall
  /\ GuardIdle
  /\ net = NotFollowed
  /\ mouse = NotFollowed
  /\ life = NotFollowed
  /\ calc = NotFollowed
  /\ load = NotFollowed
  /\ snap = NotFollowed

\* close_current_tab() returned or raised; the agent tab is open when it is called
CloseCurrentTabOfSeveral ==
  /\ ~Gone(session, session.agent_current_page)
  /\ session' = close_current_tab(session).s
  /\ last' = [NoCall EXCEPT !.op = "close_current_tab", !.err = close_current_tab(session).err]
  /\ UNCHANGED <<guardVars, net, mouse, life, calc, load, snap>>

NextTabs == CloseCurrentTabOfSeveral

SpecTabs == InitTabs /\ [][NextTabs]_vars

(***************************************************************************)
(* stop() on a started session, and a decorated operation called after it. *)
(* calc.input is browser_profile.keep_alive, calc.output tells whether     *)
(* browser_context.close() went through                                    *)
(***************************************************************************)
\* browser_context.close(): every page of the context is closed
context_closed(s) ==
  [s EXCEPT !.pages = <<>>, !.url = [p \in DOMAIN s.url |-> ABOUT_BLANK]]

\* stop() as the session's fields see it: with keep_alive it does nothing; without, it
\* closes the context, the browser and the process, and assigns no field of the session
stop_session(s, keep_alive, context_fails) ==
  IF keep_alive \/ s.browser_context = NULL \/ context_fails THEN s
  ELSE context_closed(s)

InitStopped ==
  /\ session \in UNION { {StartedSession(allowed, urls, a, h) :
                            allowed \in SessionAllowLists, urls \in [1..n -> SessionUrls],
                            a \in 1..n, h \in 1..n} : n \in 1..MaxTabs }
  /\ last = NoCall
  /\ GuardIdle
  /\ net = NotFollowed
  /\ mouse = NotFollowed
  /\ life = NotFollowed
  /\ calc \in {[pc |-> "started", input |-> keep_alive, output |-> FALSE] : keep_alive \in BOOLEAN}
  /\ load = NotFollowed
  /\ snap = NotFollowed

StopStarted ==
  \E context_fails \in BOOLEAN :
    /\ calc.pc = "started"
    /\ session' = stop_session(session, calc.input, context_fails)
    /\ last' = [NoCall EXCEPT !.op = "stop"]
    /\ calc' = [calc EXCEPT !.pc = "stopped", !.output = ~calc.input /\ ~context_fails]
    /\ UNCHANGED <<guardVars, net, mouse, life, load, snap>>

\* switch_tab(tab_index), an operation under @require_initialization, after stop()
SwitchTabAfterStop ==
  \E i \in TabIndexes :
    /\ calc.pc = "stopped"
    /\ session' = switch_tab(session, i).s
    /\ last' = [NoCall EXCEPT !.op = "switch_tab", !.index = i, !.err = switch_tab(session, i).err,
                              !.ret = switch_tab(session, i).ret]
    /\ UNCHANGED <<guardVars, net, mouse, life, calc, load, snap>>

NextStopped == StopStarted \/ SwitchTabAfterStop

SpecStopped == InitStopped /\ [][NextStopped]_vars

(***************************************************************************)
(* The allowlist guard on its own: one URL, one allowed_domains list, one  *)
(* call of _is_url_allowed                                                 *)
(***************************************************************************)
InitGuard ==
  /\ session = NewSession(<<>>)
  /\ last = NoCall
  /\ g_parts \in GuardParts
  /\ g_url = UrlOf(g_parts)
  /\ g_allowed \in GuardAllowLists
  /\ g_result = "unchecked"
  /\ net = NoWait
  /\ mouse = NoMouse
  /\ life = NoLife
  /\ calc = NoCalc
  /\ load = NoLoad
  /\ snap = NoSnap

CheckUrl ==
  /\ g_result = "unchecked"
  /\ g_result' = IF _is_url_allowed(g_url, g_allowed) THEN "allowed" ELSE "rejected"
  /\ UNCHANGED <<session, last, g_url, g_parts, g_allowed, net, mouse, life, calc, load, snap>>

NextGuard == CheckUrl

SpecGuard == InitGuard /\ [][NextGuard]_vars

(***************************************************************************)
(* _wait_for_stable_network on its own.  The clock counts tenths of a       *)
(* second, the period of the polling loop; net.started and net.last_event  *)
(* record what the page did (the requests it started, the time of the last *)
(* tracked request start or counted response) and are not read by the loop.*)
(***************************************************************************)
MaxTime == 16
MaxRequests == 2
MaxOvershoot == 1

\* wait_for_network_idle_page_load_time and maximum_wait_page_load_time, in tenths
IdleTimes == {1, 5}
Ceilings == {3, 12, 30}

\* locals of _wait_for_stable_network when the loop is entered
begin_wait(idle_time, max_time) ==
  [NoWait EXCEPT !.pc = "sleeping", !.next_poll = 1,
                 !.idle_time = idle_time, !.max_time = max_time]

\* on_request: a request that passes the filters is tracked
on_request(w, request, relevant) ==
  IF ~relevant THEN w
  ELSE [w EXCEPT !.pending = @ \cup {request}, !.last_activity = w.now]

\* variant: a counted response does not refresh last_activity
on_response_keeps_last_activity(w, request, counted) ==
  [w EXCEPT !.pending = @ \ {request}]

\* on_response: the request leaves the pending set; only a response that passes the
\* content filters counts as activity
on_response(w, request, counted) ==
  IF request \notin w.pending THEN w
  ELSE IF ~counted THEN [w EXCEPT !.pending = @ \ {request}]
  ELSE [w EXCEPT !.pending = @ \ {request}, !.last_activity = w.now]

\* one round of the loop after asyncio.sleep(0.1) has returned
poll(w) ==
  IF w.pending = {} /\ (w.now - w.last_activity) >= w.idle_time
    THEN [w EXCEPT !.pc = "returned", !.returned_at = w.now]
  ELSE IF w.now - w.start_time > w.max_time
    THEN [w EXCEPT !.pc = "returned", !.returned_at = w.now]
  ELSE [w EXCEPT !.next_poll = w.now + 1]

InitNetwork ==
  /\ session = NewSession(<<>>)
  /\ last = NoCall
  /\ GuardIdle
  /\ net \in {begin_wait(i, m) : i \in IdleTimes, m \in Ceilings}
  /\ mouse = NoMouse
  /\ life = NoLife
  /\ calc = NoCalc
  /\ load = NoLoad
  /\ snap = NoSnap

\* a tenth of a second passes; asyncio.sleep(0.1) returns after 0.1 s or later
Tick ==
  /\ net.pc = "sleeping"
  /\ net.now < MaxTime
  /\ net.now < net.next_poll + MaxOvershoot
  /\ net' = [net EXCEPT !.now = @ + 1]
  /\ UNCHANGED <<sessionVars, guardVars, mouse, life, calc, load, snap>>

\* the page starts a request
Request ==
  \E r \in 1..MaxRequests, relevant \in BOOLEAN :
    /\ net.pc = "sleeping"
    /\ r \notin net.started
    /\ net' = [on_request(net, r, relevant)
                 EXCEPT !.started = @ \cup {r},
                        !.last_event = IF relevant THEN net.now ELSE @]
    /\ UNCHANGED <<sessionVars, guardVars, mouse, life, calc, load, snap>>

\* the response of a tracked request arrives
Response ==
  \E r \in 1..MaxRequests, counted \in BOOLEAN :
    /\ net.pc = "sleeping"
    /\ r \in net.pending
    /\ net' = [on_response(net, r, counted)
                 EXCEPT !.last_event = IF counted THEN net.now ELSE @]
    /\ UNCHANGED <<sessionVars, guardVars, mouse, life, calc, load, snap>>

Poll ==
  /\ net.pc = "sleeping"
  /\ net.now >= net.next_poll
  /\ net' = poll(net)
  /\ UNCHANGED <<sessionVars, guardVars, mouse, life, calc, load, snap>>

NextNetwork == Tick \/ Request \/ Response \/ Poll

SpecNetwork == InitNetwork /\ [][NextNetwork]_vars

(***************************************************************************)
(* _wait_for_page_and_frames_load around _wait_for_stable_network. The     *)
(* clock is net.now, in tenths, and starts at 0 with each call, so that    *)
(* start_time is 0. load.listeners counts the handlers registered on the   *)
(* page per event. load.swallowed tells that `except Exception: pass` was  *)
(* taken.                                                                  *)
(***************************************************************************)
MaxLoads == 2

\* minimum_wait_page_load_time and timeout_overwrite (NoTime is None), in tenths
MinimumWaits == {0, 6}
Overwrites == {NoTime, 0, 10}

\* what get_current_page does in the method and in _wait_for_stable_network
PageOutcomes == {"page", "raises", "raises in wait"}
\* what _check_and_handle_navigation does
NavigationOutcomes == {"ok", "URLNotAllowedError", "Exception"}

\* page.on('request', on_request); page.on('response', on_response)
add_listeners(listeners) == [event \in DOMAIN listeners |-> listeners[event] + 1]

\* variant: the listeners stay on the page
remove_listeners_none(listeners) == listeners

\* finally: page.remove_listener('request', on_request); page.remove_listener('response', on_response)
remove_listeners(listeners) == [event \in DOMAIN listeners |-> listeners[event] - 1]

\* a or b of Python for an optional number a
python_or(a, b) == IF a = NoTime \/ a = 0 THEN b ELSE a

max(a, b) == IF a >= b THEN a ELSE b

\* variant: the time already spent counts twice
remaining_after_double_elapsed(timeout_overwrite, minimum, elapsed) ==
  max(python_or(timeout_overwrite, minimum) - 2 * elapsed, 0)

\* remaining = max((timeout_overwrite or minimum_wait_page_load_time) - elapsed, 0)
remaining(timeout_overwrite, minimum, elapsed) ==
  max(python_or(timeout_overwrite, minimum) - elapsed, 0)

\* the lines after the try statement, at time now: sleep when remaining > 0, else return
sleep_remaining(l, now, wait) ==
  IF wait > 0 THEN [l EXCEPT !.pc = "sleeping", !.wake_at = now + wait]
  ELSE [l EXCEPT !.pc = "returned", !.returned_at = now]

after_try(l, now) ==
  sleep_remaining(l, now, remaining(l.timeout_overwrite, l.minimum, now))

\* the locals of a call that has just been entered
entered(l, timeout_overwrite) ==
  [l EXCEPT !.calls = @ + 1, !.err = "ok", !.swallowed = FALSE, !.wake_at = 0, !.returned_at = 0,
            !.timeout_overwrite = timeout_overwrite]

\* get_current_page, then _wait_for_stable_network up to its loop
begin_load(l, outcome) ==
  IF outcome = "raises" THEN [l EXCEPT !.pc = "raised", !.err = "Exception"]
  ELSE IF outcome = "raises in wait" THEN after_try([l EXCEPT !.swallowed = TRUE], 0)
  ELSE [l EXCEPT !.pc = "network", !.listeners = add_listeners(@)]

\* _wait_for_stable_network has left its loop: finally, then _check_and_handle_navigation
leave_wait(l) == [l EXCEPT !.pc = "navigation", !.listeners = remove_listeners(@)]

\* asyncio.CancelledError at an await: finally runs when the loop is left by it, and
\* `except Exception` does not catch it
cancel(l) ==
  [l EXCEPT !.pc = "raised", !.err = "CancelledError",
            !.listeners = IF l.pc = "network" THEN remove_listeners(@) ELSE @]

\* _check_and_handle_navigation has answered, at time now
navigation_checked(l, outcome, now) ==
  IF outcome = "URLNotAllowedError" THEN [l EXCEPT !.pc = "raised", !.err = outcome]
  ELSE after_try([l EXCEPT !.swallowed = (outcome = "Exception")], now)

InitPageLoad ==
  /\ session = NewSession(<<>>)
  /\ last = NoCall
  /\ GuardIdle
  /\ net = NoWait
  /\ mouse = NoMouse
  /\ life = NoLife
  /\ calc = NoCalc
  /\ snap = NoSnap
  /\ load \in {[NoLoad EXCEPT !.minimum = m] : m \in MinimumWaits}

WaitForPageAndFramesLoad ==
  \E timeout_overwrite \in Overwrites, outcome \in PageOutcomes, idle_time \in {1}, max_time \in {3} :
    /\ load.pc \in {"off", "returned", "raised"}
    /\ load.calls < MaxLoads
    /\ load' = begin_load(entered(load, timeout_overwrite), outcome)
    /\ net' = IF outcome = "page" THEN begin_wait(idle_time, max_time) ELSE NoWait
    /\ UNCHANGED <<sessionVars, guardVars, mouse, life, calc, snap>>

\* one round of the loop of _wait_for_stable_network inside the method
PollInLoad ==
  /\ load.pc = "network"
  /\ net.pc = "sleeping"
  /\ net.now >= net.next_poll
  /\ net' = poll(net)
  /\ load' = IF poll(net).pc = "returned" THEN leave_wait(load) ELSE load
  /\ UNCHANGED <<sessionVars, guardVars, mouse, life, calc, snap>>

CheckAndHandleNavigation ==
  \E outcome \in NavigationOutcomes :
    /\ load.pc = "navigation"
    /\ load' = navigation_checked(load, outcome, net.now)
    /\ UNCHANGED <<sessionVars, guardVars, net, mouse, life, calc, snap>>

\* a tenth of a second passes during asyncio.sleep(remaining)
SleepRemaining ==
  /\ load.pc = "sleeping"
  /\ net.now < load.wake_at + MaxOvershoot
  /\ net' = [net EXCEPT !.now = @ + 1]
  /\ UNCHANGED <<sessionVars, guardVars, mouse, life, calc, load, snap>>

\* asyncio.sleep(remaining) returns, and the method with it
WakeUp ==
  /\ load.pc = "sleeping"
  /\ net.now >= load.wake_at
  /\ load' = [load EXCEPT !.pc = "returned", !.returned_at = net.now]
  /\ UNCHANGED <<sessionVars, guardVars, net, mouse, life, calc, snap>>

\* the task running the method is cancelled while it sleeps
Cancelled ==
  /\ load.pc \in {"network", "sleeping"}
  /\ load' = cancel(load)
  /\ net' = IF load.pc = "network" THEN [net EXCEPT !.pc = "cancelled"] ELSE net
  /\ UNCHANGED <<sessionVars, guardVars, mouse, life, calc, snap>>

LoadTick == load.pc = "network" /\ Tick
LoadRequest == load.pc = "network" /\ Request
LoadResponse == load.pc = "network" /\ Response

NextPageLoad ==
  \/ WaitForPageAndFramesLoad
  \/ LoadTick
  \/ LoadRequest
  \/ LoadResponse
  \/ PollInLoad
  \/ CheckAndHandleNavigation
  \/ SleepRemaining
  \/ WakeUp
  \/ Cancelled

SpecPageLoad == InitPageLoad /\ [][NextPageLoad]_vars

(***************************************************************************)
(* get_state_summary and the hashes of clickable elements. A state summary *)
(* is its url and its clickable elements, each known by its hash, with the *)
(* is_new attribute of each ("None" until it is assigned). The summary is  *)
(* one object: an is_new assigned through updated_state is seen through    *)
(* browser_state_summary as well. snap.call is the latest call: its        *)
(* argument, outcome, and the cached hashes it found.                      *)
(***************************************************************************)
MaxHashes == 2

SnapUrls == {"a.com", "b.com"}
ElementHashes == 1..MaxHashes
\* what the page shows when get_state_summary is called, and what fails
SnapEnvs ==
  [url : SnapUrls, elements : SUBSET ElementHashes, fails : {"none", "wait", "build"}]

\* BrowserStateSummary(...) built from the page by _get_updated_state
built_summary(env) == [url |-> env.url, is_new |-> [h \in env.elements |-> "None"]]

\* _get_updated_state: the summary built, or the last one built when building fails
updated_state(k, env) ==
  IF env.fails = "build" THEN k.browser_state_summary ELSE built_summary(env)

\* ClickableElementProcessor.get_clickable_elements_hashes(element_tree)
get_clickable_elements_hashes(summary) == DOMAIN summary.is_new

\* variant: every element of an unchanged url is flagged new
is_new_always(h, cached) == "True"

\* dom_element.is_new = hash_dom_element(dom_element) not in cached hashes
is_new(h, cached) == IF h \notin cached.hashes THEN "True" ELSE "False"

\* the for loop over the clickable elements of updated_state
flag_new_elements(summary, cached) ==
  [summary EXCEPT !.is_new = [h \in DOMAIN summary.is_new |-> is_new(h, cached)]]

\* the diff is made only against hashes cached for the same url
diff_with_cached_hashes(summary, cached) ==
  IF cached # NoHashes /\ cached.url = summary.url THEN flag_new_elements(summary, cached)
  ELSE summary

CachedClickableElementHashes(summary) ==
  [url |-> summary.url, hashes |-> get_clickable_elements_hashes(summary)]

\* get_state_summary from `if cache_clickable_elements_hashes:` on, given updated_state,
\* which is the object self.browser_state_summary refers to
summarize(k, cache_clickable_elements_hashes, summary) ==
  [k EXCEPT !.cached_clickable_element_hashes =
              IF cache_clickable_elements_hashes THEN CachedClickableElementHashes(summary) ELSE @,
            !.browser_state_summary = summary,
            !.cached_browser_state_summary = summary,
            !.call = [cache_clickable_elements_hashes |-> cache_clickable_elements_hashes,
                      err |-> "ok", ret |-> summary,
                      hashes_before |-> k.cached_clickable_element_hashes]]

raised(k, cache_clickable_elements_hashes, err) ==
  [k EXCEPT !.call = [cache_clickable_elements_hashes |-> cache_clickable_elements_hashes,
                      err |-> err, ret |-> NoTree,
                      hashes_before |-> k.cached_clickable_element_hashes]]

summarize_updated_state(k, cache_clickable_elements_hashes, summary) ==
  IF summary = NoTree THEN raised(k, cache_clickable_elements_hashes, "Exception")
  ELSE IF cache_clickable_elements_hashes
    THEN summarize(k, TRUE, diff_with_cached_hashes(summary, k.cached_clickable_element_hashes))
  ELSE summarize(k, FALSE, summary)

get_state_summary_hashes(k, cache_clickable_elements_hashes, env) ==
  IF env.fails = "wait" THEN raised(k, cache_clickable_elements_hashes, "URLNotAllowedError")
  ELSE summarize_updated_state(k, cache_clickable_elements_hashes, updated_state(k, env))

InitSnap ==
  /\ session = NewSession(<<>>)
  /\ last = NoCall
  /\ GuardIdle
  /\ net = NoWait
  /\ mouse = NoMouse
  /\ life = NoLife
  /\ calc = NoCalc
  /\ load = NoLoad
  /\ snap = NoSnap

GetStateSummaryHashes ==
  \E cache_clickable_elements_hashes \in BOOLEAN, env \in SnapEnvs :
    /\ snap' = get_state_summary_hashes(snap, cache_clickable_elements_hashes, env)
    /\ UNCHANGED <<sessionVars, guardVars, net, mouse, life, calc, load>>

NextSnap == GetStateSummaryHashes

SpecSnap == InitSnap /\ [][NextSnap]_vars

(***************************************************************************)
(* Click recording of the MouseMovementService. The clock counts ticks of  *)
(* time.time(); mouse.fs is the set of clicks.json files written so far.   *)
(* mouse.window, mouse.started_at and mouse.performed are history: whether *)
(* a recording window is open, when the latest start_recording was called  *)
(* and the clicks handed to _record_click since that call.                 *)
(***************************************************************************)
MaxClicks == 2
MaxClock == 4
MaxPause == 2

\* recording_dir: None, the empty string, a directory
RecordingDirs == {NoDir, "", "recordings"}

\* where the mouse is when click_element_with_movement records, and the page's URL
ClickTargets ==
  { [x |-> 10, y |-> 20, page_url |-> URL_EXAMPLE],
    [x |-> 30, y |-> 40, page_url |-> URL_EVIL] }

\* MouseMovementService.__init__
MouseMovementService ==
  [_recording_start_time |-> NoTime, _click_events |-> <<>>, _recording_dir |-> NoDir]

ClickEvent(timestamp, x, y, page_url) ==
  [timestamp |-> timestamp, x |-> x, y |-> y, page_url |-> page_url]

to_dict(event) ==
  [timestamp |-> event.timestamp, x |-> event.x, y |-> event.y, page_url |-> event.page_url]

\* variant: the click log of the recording before is kept
start_recording_keeps_events(svc, recording_dir, now) ==
  [svc EXCEPT !._recording_start_time = now, !._recording_dir = recording_dir]

start_recording(svc, recording_dir, now) ==
  [svc EXCEPT !._recording_start_time = now, !._click_events = <<>>,
              !._recording_dir = recording_dir]

\* `if self._recording_dir`
dir_given(recording_dir) == recording_dir # NoDir /\ recording_dir # ""

\* open(click_file, 'w') and json.dump; a failure is logged, not raised
_save_click_data(fs, svc, click_data, write_fails) ==
  IF write_fails THEN fs
  ELSE {f \in fs : f.dir # svc._recording_dir}
         \cup {[dir |-> svc._recording_dir,
                recording_start_time |-> svc._recording_start_time,
                clicks |-> click_data]}

click_data_of(svc) == [i \in 1..Len(svc._click_events) |-> to_dict(svc._click_events[i])]

save_if_any(fs, svc, click_data, write_fails) ==
  IF dir_given(svc._recording_dir) /\ click_data # <<>>
    THEN _save_click_data(fs, svc, click_data, write_fails)
  ELSE fs

\* stop_recording(): the list returned and the files afterwards
stop_recording(svc, fs, write_fails) ==
  [ret |-> click_data_of(svc), fs |-> save_if_any(fs, svc, click_data_of(svc), write_fails)]

_record_click(svc, x, y, page_url, now) ==
  IF svc._recording_start_time # NoTime
    THEN [svc EXCEPT !._click_events =
                       Append(@, ClickEvent(now - svc._recording_start_time, x, y, page_url))]
  ELSE svc

\* click_element_with_movement(page, element): move_mouse_to_element, the pause of
\* `delay` ticks, the mouse position, _record_click, element.click(); steps lists
\* what was done, err what was raised
click_element_with_movement(svc, now, target, delay, fails) ==
  IF fails = "move"
    THEN [svc |-> svc, now |-> now, err |-> "PlaywrightError", steps |-> <<>>]
  ELSE [svc |-> _record_click(svc, target.x, target.y, target.page_url, now + delay),
        now |-> now + delay,
        err |-> IF fails = "click" THEN "PlaywrightError" ELSE "ok",
        steps |-> IF fails = "click" THEN <<"move", "pause", "record">>
                  ELSE <<"move", "pause", "record", "click">>]

InitMouse ==
  /\ session = NewSession(<<>>)
  /\ last = NoCall
  /\ GuardIdle
  /\ net = NoWait
  /\ life = NoLife
  /\ calc = NoCalc
  /\ load = NoLoad
  /\ snap = NoSnap
  /\ mouse = [NoMouse EXCEPT !.svc = MouseMovementService, !.window = "none"]

\* time passes between two calls
Elapse ==
  /\ mouse.now < MaxClock
  /\ mouse' = [mouse EXCEPT !.now = @ + 1]
  /\ UNCHANGED <<sessionVars, guardVars, net, life, calc, load, snap>>

StartRecording ==
  \E d \in RecordingDirs :
    /\ mouse' = [mouse EXCEPT !.svc = start_recording(mouse.svc, d, mouse.now),
                              !.window = "open", !.started_at = mouse.now,
                              !.performed = <<>>,
                              !.call = [NoMouseCall EXCEPT !.op = "start_recording"]]
    /\ UNCHANGED <<sessionVars, guardVars, net, life, calc, load, snap>>

StopRecording ==
  \E write_fails \in BOOLEAN :
    /\ mouse' = [mouse EXCEPT !.fs = stop_recording(mouse.svc, mouse.fs, write_fails).fs,
                              !.window = IF @ = "none" THEN "none" ELSE "closed",
                              !.call = [NoMouseCall EXCEPT
                                          !.op = "stop_recording",
                                          !.err = IF write_fails THEN "write" ELSE "ok",
                                          !.ret = stop_recording(mouse.svc, mouse.fs, write_fails).ret]]
    /\ UNCHANGED <<sessionVars, guardVars, net, life, calc, load, snap>>

\* the call returned or raised as c says
Clicked(c, target) ==
  /\ mouse' = [mouse EXCEPT !.svc = c.svc, !.now = c.now,
                            !.performed =
                              IF mouse.window # "none" /\ Len(c.steps) >= 3
                                THEN Append(@, [at |-> c.now, x |-> target.x, y |-> target.y,
                                                page_url |-> target.page_url])
                              ELSE @,
                            !.call = [NoMouseCall EXCEPT !.op = "click_element_with_movement",
                                                         !.err = c.err, !.steps = c.steps]]
  /\ UNCHANGED <<sessionVars, guardVars, net, life, calc, load, snap>>

ClickElementWithMovement ==
  \E target \in ClickTargets, delay \in 1..MaxPause, fails \in {"none", "move", "click"} :
    /\ mouse.now + delay <= MaxClock
    /\ Len(mouse.svc._click_events) < MaxClicks
    /\ Clicked(click_element_with_movement(mouse.svc, mouse.now, target, delay, fails), target)

NextMouse == Elapse \/ StartRecording \/ StopRecording \/ ClickElementWithMovement

SpecMouse == InitMouse /\ [][NextMouse]_vars

(***************************************************************************)
(* Ownership of the browser: what start() connects to or launches, what    *)
(* keep_alive it settles on, and what stop() closes. life.open is the      *)
(* world: whether the context, the browser and the chrome process are      *)
(* still there; life.args are the constructor's arguments; life.attempts   *)
(* lists what the running stop() has tried, in order.                      *)
(***************************************************************************)
ExternalPid == 1
ChildPid == 2

\* BrowserSession(...): keep_alive of the profile, wss_url, cdp_url, chrome_pid,
\* browser, browser_context, and whether the profile has a user_data_dir
BrowserSessionArgs ==
  [ keep_alive : {"None", "True", "False"},
    wss_url : BOOLEAN,
    cdp_url : BOOLEAN,
    chrome_pid : {NoPid, ExternalPid},
    browser : BOOLEAN,
    browser_context : BOOLEAN,
    user_data_dir : BOOLEAN ]

\* a browser somebody else runs is there before start()
Supplied(args) ==
  args.wss_url \/ args.cdp_url \/ args.chrome_pid # NoPid \/ args.browser \/ args.browser_context

ConstructedSession(args) ==
  [NoLife EXCEPT !.pc = "new", !.args = args, !.keep_alive = args.keep_alive,
                 !.wss_url = args.wss_url, !.cdp_url = args.cdp_url,
                 !.chrome_pid = args.chrome_pid,
                 !.browser = IF args.browser THEN "external" ELSE "None",
                 !.browser_context = IF args.browser_context THEN "external" ELSE "None",
                 !.open = [context |-> args.browser_context,
                           browser |-> Supplied(args),
                           process |-> Supplied(args)]]

\* `if self.browser_profile.keep_alive is None: self.browser_profile.keep_alive = v`
default_keep_alive(l, v) == IF l.keep_alive = "None" THEN [l EXCEPT !.keep_alive = v] ELSE l

\* self.cdp_url = self.cdp_url or f'http://localhost:{debug_port}/'
cdp_url_of_chrome_pid(l) == IF l.chrome_pid # NoPid THEN [l EXCEPT !.cdp_url = TRUE] ELSE l

\* self.browser = self.browser or await self.playwright.chromium.connect...(...)
connect(l) == [l EXCEPT !.browser = IF @ = "None" THEN "connected" ELSE @]

connect_by_url(l) ==
  IF l.wss_url \/ l.cdp_url THEN default_keep_alive(connect(l), "True") ELSE l

setup_browser_connection(l) == connect_by_url(cdp_url_of_chrome_pid(l))

\* `if self.browser_context:` at the top of setup_browser_context
use_given_context(l) ==
  IF l.browser_context # "None"
    THEN default_keep_alive([l EXCEPT !.browser = IF @ = "None" THEN "external" ELSE @], "True")
  ELSE l

\* `if self.browser and not self.browser_context:` the first context of the browser,
\* or a new one
context_of_browser(l) ==
  IF l.browser # "None" /\ l.browser_context = "None"
    THEN [l EXCEPT !.browser_context = "of_browser", !.open.context = TRUE]
  ELSE l

\* `if not self.browser_context:` launch() and new_context(), or
\* launch_persistent_context(), whose context.browser is None
launch(l) ==
  IF l.browser_context = "None"
    THEN [l EXCEPT !.browser_context = "launched",
                   !.browser = IF l.args.user_data_dir THEN "None" ELSE "launched",
                   !.launched = TRUE,
                   !.open = [context |-> TRUE, browser |-> TRUE, process |-> TRUE]]
  ELSE l

\* `if new_chrome_procs and not self.chrome_pid:`; discovered says whether a new
\* running child process was found after the launch
adopt_child_process(l, discovered) ==
  IF discovered /\ l.launched /\ l.chrome_pid = NoPid
    THEN default_keep_alive([l EXCEPT !.chrome_pid = ChildPid], "False")
  ELSE l

setup_browser_context_owner(l, discovered) ==
  adopt_child_process(launch(context_of_browser(use_given_context(l))), discovered)

\* start(), as far as ownership goes
start_owner(l, discovered) ==
  [setup_browser_context_owner(setup_browser_connection(l), discovered) EXCEPT !.pc = "started"]

\* one `try: await x.close() / terminate()`: skipped once something was raised
attempt(l, what, should, fails) ==
  IF l.err # "ok" \/ ~should THEN l
  ELSE [l EXCEPT !.attempts = Append(@, what),
                 !.open[what] = IF fails THEN @ ELSE FALSE,
                 !.err = IF fails THEN "Exception" ELSE "ok"]

\* variant: the exception is raised again
except_Exception_reraise(l) == l

\* `except Exception as e: logger.debug(...)`
except_Exception(l) == [l EXCEPT !.err = "ok"]

close_context(l, fails) ==
  except_Exception(attempt(l, "context", l.browser_context # "None", fails))

close_browser(l, fails) ==
  except_Exception(attempt(l, "browser", l.browser # "None", fails))

terminate_process(l, fails) ==
  except_Exception(attempt(l, "process", l.chrome_pid # NoPid, fails))

\* stop(); env says which of the three calls fail
stop(l, env) ==
  IF l.keep_alive = "True" THEN [l EXCEPT !.err = "ok", !.attempts = <<>>]
  ELSE terminate_process(
         close_browser(
           close_context([l EXCEPT !.err = "ok", !.attempts = <<>>], env.context_fails),
           env.browser_fails),
         env.terminate_fails)

StopEnvs == [context_fails : BOOLEAN, browser_fails : BOOLEAN, terminate_fails : BOOLEAN]

InitLife ==
  /\ session = NewSession(<<>>)
  /\ last = NoCall
  /\ GuardIdle
  /\ net = NoWait
  /\ mouse = NoMouse
  /\ life \in {ConstructedSession(a) : a \in BrowserSessionArgs}
  /\ calc = NoCalc
  /\ load = NoLoad
  /\ snap = NoSnap

\* the call op returned or raised as l says
Lived(op, l, pc, body_raised) ==
  /\ life' = [l EXCEPT !.pc = pc,
                       !.call = [op |-> op, err |-> l.err, attempts |-> l.attempts,
                                 body_raised |-> body_raised]]
  /\ UNCHANGED <<sessionVars, guardVars, net, mouse, calc, load, snap>>

StartSession ==
  \E discovered \in BOOLEAN :
    /\ life.pc = "new"
    /\ Lived("start", [start_owner(life, discovered) EXCEPT !.err = "ok", !.attempts = <<>>],
             "started", FALSE)

StopSession ==
  \E env \in StopEnvs :
    /\ life.pc \in {"new", "started", "stopped"}
    /\ Lived("stop", stop(life, env), "stopped", FALSE)

\* `async with BrowserSession(...) as session:` is entered
AEnter ==
  \E discovered \in BOOLEAN :
    /\ life.pc = "new"
    /\ Lived("__aenter__", [start_owner(life, discovered) EXCEPT !.err = "ok", !.attempts = <<>>],
             "in_context", FALSE)

\* the body of the `async with` returned or raised: __aexit__ runs
AExit ==
  \E env \in StopEnvs, body_raised \in BOOLEAN :
    /\ life.pc = "in_context"
    /\ Lived("__aexit__", stop(life, env), "stopped", body_raised)

NextLife == StartSession \/ StopSession \/ AEnter \/ AExit

SpecLife == InitLife /\ [][NextLife]_vars

(***************************************************************************)
(* Methods that work on their arguments alone. calc.input is what the call *)
(* is given, the browser's answers included; calc.output is what it        *)
(* returned or raised.                                                     *)
(***************************************************************************)
OthersIdle ==
  /\ session = NewSession(<<>>)
  /\ last = NoCall
  /\ GuardIdle
  /\ net = NoWait
  /\ mouse = NoMouse
  /\ life = NoLife
  /\ load = NoLoad
  /\ snap = NoSnap

otherVars == <<sessionVars, guardVars, net, mouse, life, load, snap>>

\* the call with these arguments has been made and has not returned
Called(input) == [pc |-> "called", input |-> input, output |-> <<>>]

\* the call returns output
Done(output) ==
  /\ calc.pc = "called"
  /\ calc' = [calc EXCEPT !.pc = "done", !.output = output]
  /\ UNCHANGED otherVars

(***************************************************************************)
(* get_tabs_info                                                           *)
(***************************************************************************)
MaxPages == 3

\* what `await page.title()` does: it returns, it never returns, or it raises the
\* TimeoutError of playwright
TitleOutcomes == {"title", "hangs", "playwright.TimeoutError"}

TabPages == UNION {[1..n -> [url : {URL_EXAMPLE, URL_EVIL}, title : TitleOutcomes]] : n \in 0..MaxPages}

\* asyncio.wait_for(page.title(), timeout=1): a call that hangs ends after one second
\* with the TimeoutError of asyncio, which is the builtin one
wait_for(outcome) ==
  IF outcome = "hangs" THEN "builtins.TimeoutError"
  ELSE IF outcome = "title" THEN "ok"
  ELSE outcome

\* variant: the clause names the builtin TimeoutError as well
except_TimeoutError_builtin(exc) == exc \in {"playwright.TimeoutError", "builtins.TimeoutError"}

\* `except TimeoutError:` where TimeoutError is imported from playwright.async_api
except_TimeoutError(exc) == exc = "playwright.TimeoutError"

TabInfo(page_id, url, title) == [page_id |-> page_id, url |-> url, title |-> title]

\* the body of the loop for one page
tab_info(page_id, page) ==
  IF wait_for(page.title) = "ok"
    THEN [err |-> "ok", ret |-> TabInfo(page_id, page.url, "title")]
  ELSE IF except_TimeoutError(wait_for(page.title))
    THEN [err |-> "ok", ret |-> TabInfo(page_id, ABOUT_BLANK, "ignore this tab and do not use it")]
  ELSE [err |-> wait_for(page.title), ret |-> TabInfo(page_id, page.url, "")]

RECURSIVE tabs_info_from(_, _, _)
tabs_info_from(pages, n, tabs_info) ==
  IF n > Len(pages) THEN [err |-> "ok", ret |-> tabs_info]
  ELSE IF tab_info(n - 1, pages[n]).err # "ok"
    THEN [err |-> tab_info(n - 1, pages[n]).err, ret |-> <<>>]
  ELSE tabs_info_from(pages, n + 1, Append(tabs_info, tab_info(n - 1, pages[n]).ret))

get_tabs_info(pages) == tabs_info_from(pages, 1, <<>>)

InitTabsInfo ==
  /\ OthersIdle
  /\ calc \in {Called(pages) : pages \in TabPages}

GetTabsInfo == Done(get_tabs_info(calc.input))

NextTabsInfo == GetTabsInfo

SpecTabsInfo == InitTabsInfo /\ [][NextTabsInfo]_vars

(***************************************************************************)
(* _input_text_element_node: calc.output.steps lists the calls made on the *)
(* element and the page, in order                                          *)
(***************************************************************************)
\* what the element and the page answer: whether get_locate_element finds the element,
\* whether reading its properties raises, whether it is a writable input or
\* contenteditable, and which of click, type, fill and keyboard.type raise
InputTextEnvs ==
  [ found : BOOLEAN, properties_fail : BOOLEAN, typeable : BOOLEAN, click_fails : BOOLEAN,
    type_fails : BOOLEAN, fill_fails : BOOLEAN, keyboard_fails : BOOLEAN ]

Step(r, what, fails) ==
  [err |-> IF fails THEN "Exception" ELSE "ok", steps |-> Append(r.steps, what)]

\* variant: the exception of the input method is raised to the outer handler
keyboard_fallback_none(r, env) == r

\* `except Exception:` of the inner try: page.keyboard.type(text)
keyboard_fallback(r, env) ==
  IF r.err = "ok" THEN r ELSE Step(r, "keyboard.type", env.keyboard_fails)

\* the inner try: clear and type into an input or contenteditable that is neither
\* readonly nor disabled, fill otherwise
input_by_kind(r, env) ==
  IF r.err # "ok" THEN r
  ELSE IF env.typeable THEN keyboard_fallback(Step(r, "clear+type", env.type_fails), env)
  ELSE keyboard_fallback(Step(r, "fill", env.fill_fails), env)

\* get_locate_element, the element's properties, element_handle.click()
click_first(env) ==
  IF ~env.found THEN [err |-> "BrowserError", steps |-> <<>>]
  ELSE IF env.properties_fail THEN [err |-> "Exception", steps |-> <<>>]
  ELSE Step([err |-> "ok", steps |-> <<>>], "click", env.click_fails)

\* the outer `except Exception as e: raise BrowserError(...)`
raise_BrowserError(r) == IF r.err = "ok" THEN r ELSE [r EXCEPT !.err = "BrowserError"]

_input_text_element_node(env) == raise_BrowserError(input_by_kind(click_first(env), env))

InitInputText ==
  /\ OthersIdle
  /\ calc \in {Called(env) : env \in InputTextEnvs}

InputTextElementNode == Done(_input_text_element_node(calc.input))

NextInputText == InputTextElementNode

SpecInputText == InitInputText /\ [][NextInputText]_vars

(***************************************************************************)
(* The two definitions of _input_text_element_node in the class body of    *)
(* BrowserSession, and the one a call reaches                              *)
(***************************************************************************)
MaxChars == 2

\* the answers of the element and the page, the option use_human_like_mouse of the
\* profile and the number of characters of the text
HumanInputEnvs ==
  [ found : BOOLEAN, properties_fail : BOOLEAN, typeable : BOOLEAN, click_fails : BOOLEAN,
    type_fails : BOOLEAN, fill_fails : BOOLEAN, keyboard_fails : BOOLEAN,
    use_human_like_mouse : BOOLEAN, chars : 0..MaxChars ]

\* `for char in text: await <target>.type(char, delay=random.uniform(50, 150))`: one call
\* per character, the loop ends at the first call that raises
RECURSIVE type_chars(_, _, _, _)
type_chars(r, what, chars, fails) ==
  IF chars = 0 \/ r.err # "ok" THEN r
  ELSE type_chars(Step(r, what, fails), what, chars - 1, fails)

\* the except clause of the inner try in the first definition
keyboard_fallback_human(r, env) ==
  IF r.err = "ok" THEN r
  ELSE IF env.use_human_like_mouse
    THEN type_chars([r EXCEPT !.err = "ok"], "keyboard.type(char)", env.chars, env.keyboard_fails)
  ELSE Step(r, "keyboard.type", env.keyboard_fails)

\* the inner try of the first definition
input_by_kind_human(r, env) ==
  IF r.err # "ok" THEN r
  ELSE IF env.typeable /\ env.use_human_like_mouse
    THEN keyboard_fallback_human(type_chars(Step(r, "clear", FALSE), "type(char)", env.chars, env.type_fails), env)
  ELSE IF env.typeable THEN keyboard_fallback_human(Step(r, "clear+type", env.type_fails), env)
  ELSE keyboard_fallback_human(Step(r, "fill", env.fill_fails), env)

\* the first definition up to the click: with the option on, the movement service moves
\* the pointer to the element before element_handle.click()
click_first_human(env) ==
  IF ~env.found THEN [err |-> "BrowserError", steps |-> <<>>]
  ELSE IF env.properties_fail THEN [err |-> "Exception", steps |-> <<>>]
  ELSE IF env.use_human_like_mouse
    THEN Step(Step([err |-> "ok", steps |-> <<>>], "move_mouse_to_element", FALSE), "click", env.click_fails)
  ELSE Step([err |-> "ok", steps |-> <<>>], "click", env.click_fails)

\* the definition at line 662
_input_text_element_node_662(env) ==
  raise_BrowserError(input_by_kind_human(click_first_human(env), env))

\* the names the class body binds, in the order of its def statements
input_text_definitions == <<662, 1751>>

\* variant: the name keeps its first binding
bound_definition_first(definitions) == definitions[1]

\* a def statement rebinds the name: the class keeps the last definition
bound_definition(definitions) == definitions[Len(definitions)]

\* self._input_text_element_node(element_node, text)
call_input_text_element_node(env) ==
  IF bound_definition(input_text_definitions) = 662
    THEN _input_text_element_node_662(env)
  ELSE _input_text_element_node(env)

InitHumanInput ==
  /\ OthersIdle
  /\ calc \in {Called(env) : env \in HumanInputEnvs}

CallInputTextElementNode == Done(call_input_text_element_node(calc.input))

NextHumanInput == CallInputTextElementNode

SpecHumanInput == InitHumanInput /\ [][NextHumanInput]_vars

(***************************************************************************)
(* The path generators of the MouseMovementService. A coordinate is        *)
(* computed as the exact rational and truncated as int() truncates.        *)
(***************************************************************************)
\* int(num / den) for den > 0: towards zero
int(num, den) == IF num >= 0 THEN num \div den ELSE -((-num) \div den)

PathCoords == {0, 10, 90, 100}
PathSteps == {1, 2, 10}

\* <<start, end, steps, step>> among PathCoords and PathSteps for which the double
\* start + (end - start) * (step / steps) is not the exact value but the double just
\* below it: 7 / 10 is 0.7, and 90 * 0.7 is 62.99999999999999
DoubleJustBelow == {<<0, 90, 10, 7>>}

\* int(start + (end - start) * ratio), from for start and to for end, with ratio = step / steps
linear_coordinate(from, to, steps, step) ==
  IF <<from, to, steps, step>> \in DoubleJustBelow
    THEN int(from * steps + (to - from) * step, steps) - 1
  ELSE int(from * steps + (to - from) * step, steps)

_generate_linear_path(start_x, start_y, end_x, end_y, steps) ==
  [i \in 1..(steps + 1) |->
     [x |-> linear_coordinate(start_x, end_x, steps, i - 1),
      y |-> linear_coordinate(start_y, end_y, steps, i - 1)]]

LinearPathCalls ==
  [start_x : PathCoords, start_y : PathCoords, end_x : PathCoords, end_y : PathCoords,
   steps : PathSteps]

InitLinearPath ==
  /\ OthersIdle
  /\ calc \in {Called(c) : c \in LinearPathCalls}

GenerateLinearPath ==
  Done(_generate_linear_path(calc.input.start_x, calc.input.start_y,
                             calc.input.end_x, calc.input.end_y, calc.input.steps))

NextLinearPath == GenerateLinearPath

SpecLinearPath == InitLinearPath /\ [][NextLinearPath]_vars

MaxSteps == 2

\* the outcomes of random.randint(-3, 3) the model draws
NoiseDraws == {-3, 0, 3}

\* config.speed_variation in tenths: 0.4 as the profiles of the repository set it, and 1.0
SpeedVariations10 == {4, 10}

PathStarts == {<<0, 0>>, <<10, 10>>}
PathEnds == {<<10, 10>>, <<100, 40>>}

\* the calls of _generate_path with n steps and their random outcomes: sign_x and sign_y
\* are the two random.choice([-1, 1]), draws the random.randint(-3, 3) in order
PathCalls(pattern, n, variations, draws) ==
  { c \in [ pattern : {pattern},
            start_x : {0, 10}, start_y : {0, 10}, end_x : {10, 100}, end_y : {10, 40},
            steps : {n}, sign_x : {-1, 1}, sign_y : {-1, 1},
            speed_variation10 : variations, draws : draws ] :
      <<c.start_x, c.start_y>> \in PathStarts /\ <<c.end_x, c.end_y>> \in PathEnds }

CurvedPathCalls ==
  UNION { PathCalls("bezier", n, {4}, {<<>>})
          \cup PathCalls("human", n, SpeedVariations10, [1..(2 * (n + 1)) -> NoiseDraws])
          : n \in 1..MaxSteps }

\* ten times the control point's coordinate: the midpoint moved by 0.2 of the other
\* axis' extent, `normal / length * distance * 0.2 * random.choice([-1, 1])`, and left
\* at the midpoint when start and end coincide (length 0)
control10(from, to, normal, sign) == 5 * (from + to) + 2 * normal * sign

\* int((1 - t)**2 * start + 2 * (1 - t) * t * control + t**2 * end) with t = step / steps
bezier_coordinate(from, control_10, to, steps, step) ==
  int((steps - step) * (steps - step) * 10 * from
        + 2 * (steps - step) * step * control_10
        + step * step * 10 * to,
      10 * steps * steps)

_generate_bezier_path(start_x, start_y, end_x, end_y, steps, sign_x, sign_y) ==
  [i \in 1..(steps + 1) |->
     [x |-> bezier_coordinate(start_x, control10(start_x, end_x, -(end_y - start_y), sign_x),
                              end_x, steps, i - 1),
      y |-> bezier_coordinate(start_y, control10(start_y, end_y, end_x - start_x, sign_y),
                              end_y, steps, i - 1)]]

\* variant: the noise does not fade along the path
human_coordinate_steady(base, draw, speed_variation10, steps, index) ==
  int(base * 10 + draw * speed_variation10, 10)

\* int(x + noise) with noise = random.randint(-3, 3) * speed_variation * (1 - index / steps),
\* index being len(human_path)
human_coordinate(base, draw, speed_variation10, steps, index) ==
  int(base * 10 * steps + draw * speed_variation10 * (steps - index), 10 * steps)

_generate_human_path(base_path, steps, speed_variation10, draws) ==
  [i \in 1..Len(base_path) |->
     [x |-> human_coordinate(base_path[i].x, draws[2 * i - 1], speed_variation10, steps, i - 1),
      y |-> human_coordinate(base_path[i].y, draws[2 * i], speed_variation10, steps, i - 1)]]

_generate_path(c) ==
  IF c.pattern = "bezier"
    THEN _generate_bezier_path(c.start_x, c.start_y, c.end_x, c.end_y, c.steps, c.sign_x, c.sign_y)
  ELSE _generate_human_path(
         _generate_bezier_path(c.start_x, c.start_y, c.end_x, c.end_y, c.steps, c.sign_x, c.sign_y),
         c.steps, c.speed_variation10, c.draws)

InitCurvedPath ==
  /\ OthersIdle
  /\ calc \in {Called(c) : c \in CurvedPathCalls}

GeneratePath == Done(_generate_path(calc.input))

NextCurvedPath == GeneratePath

SpecCurvedPath == InitCurvedPath /\ [][NextCurvedPath]_vars

(***************************************************************************)
(* on_response with the headers of the response. A content-type header is  *)
(* known by the words of the two lists that occur in its lower-cased text; *)
(* ContentTypeWords is that relation for the headers the model draws from. *)
(* calc.input.w holds the locals of the wait when the response arrives.    *)
(***************************************************************************)
StreamingTypes ==
  {"streaming", "video", "audio", "webm", "mp4", "event-stream", "websocket", "protobuf"}
RELEVANT_CONTENT_TYPES ==
  {"text/html", "text/css", "application/javascript", "image/", "font/", "application/json"}

\* response.headers.get('content-type', ''): "" also stands for a response without the header
ContentTypes ==
  {"", "text/html; charset=utf-8", "Application/JSON", "image/webp", "text/event-stream",
   "video/mp4", "application/octet-stream", "application/json+protobuf"}
ContentTypeWords ==
  [content_type \in ContentTypes |->
     CASE content_type = "text/html; charset=utf-8" -> {"text/html"}
       [] content_type = "Application/JSON" -> {"application/json"}
       [] content_type = "image/webp" -> {"image/"}
       [] content_type = "text/event-stream" -> {"event-stream"}
       [] content_type = "video/mp4" -> {"video", "mp4"}
       [] content_type = "application/json+protobuf" -> {"protobuf", "application/json"}
       [] OTHER -> {}]

\* response.headers.get('content-length'): "None" when the header is absent
ContentLengths == {"None", "", "0", "5242880", "5242881", "chunked"}
\* int(content_length); -1 stands for ValueError
python_int ==
  [content_length \in ContentLengths \ {"None", ""} |->
     CASE content_length = "0" -> 0
       [] content_length = "5242880" -> 5242880
       [] content_length = "5242881" -> 5242881
       [] OTHER -> -1]

ResponseHeaders == [content_type : ContentTypes, content_length : ContentLengths]

is_streaming(content_type) == ContentTypeWords[content_type] \cap StreamingTypes # {}
is_relevant(content_type) == ContentTypeWords[content_type] \cap RELEVANT_CONTENT_TYPES # {}

\* variant: a response of exactly 5 MB is too large
too_large_from_5MB(content_length) ==
  content_length \notin {"None", ""} /\ python_int[content_length] >= 5 * 1024 * 1024

\* content_length and int(content_length) > 5 * 1024 * 1024
too_large(content_length) ==
  content_length \notin {"None", ""} /\ python_int[content_length] > 5 * 1024 * 1024

raises_ValueError(content_length) ==
  content_length \notin {"None", ""} /\ python_int[content_length] = -1

\* on_response from the headers of the response
on_response_headers(w, request, headers) ==
  IF request \notin w.pending THEN [w |-> w, err |-> "ok"]
  ELSE IF is_streaming(headers.content_type) \/ ~is_relevant(headers.content_type)
    THEN [w |-> on_response(w, request, FALSE), err |-> "ok"]
  ELSE IF raises_ValueError(headers.content_length) THEN [w |-> w, err |-> "ValueError"]
  ELSE [w |-> on_response(w, request, ~too_large(headers.content_length)), err |-> "ok"]

\* the locals of a wait in its loop
WaitLocals ==
  { [NoWait EXCEPT !.pc = "sleeping", !.pending = pending, !.last_activity = last_activity,
                   !.now = last_activity + since] :
      pending \in SUBSET (1..MaxRequests), last_activity \in 0..1, since \in {0, 2} }

InitResponse ==
  /\ OthersIdle
  /\ calc \in {Called(c) : c \in [w : WaitLocals, request : 1..MaxRequests, headers : ResponseHeaders]}

OnResponse == Done(on_response_headers(calc.input.w, calc.input.request, calc.input.headers))

NextResponse == OnResponse

SpecResponse == InitResponse /\ [][NextResponse]_vars

(***************************************************************************)
(* The loop of move_mouse_to_element. Times are tenths of a second, and    *)
(* the time slept is kept multiplied by Scale(steps), the product of the   *)
(* denominators of the step delays, so that it is an exact integer.        *)
(* calc.output.i is the loop index, calc.output.slept the sum of the       *)
(* step delays slept so far.                                               *)
(***************************************************************************)
\* path = self._generate_path(..., steps=20)
MovementSteps == 20

\* min_movement_time and max_movement_time of the configuration
MovementConfigs ==
  {[min_movement_time |-> 3, max_movement_time |-> 10],
   [min_movement_time |-> 5, max_movement_time |-> 5]}

\* movement_time = random.uniform(min_movement_time, max_movement_time) and steps = len(path)
MovementCalls ==
  { c \in [config : MovementConfigs, movement_time : 3..10, steps : {MovementSteps + 1}] :
      /\ c.movement_time >= c.config.min_movement_time
      /\ c.movement_time <= c.config.max_movement_time }

\* the denominators of speed_factor = 0.5 + 2.5 * j / steps = (steps + 5 * j) / (2 * steps),
\* for the indices j >= from with j / steps < 0.2, multiplied
RECURSIVE ease_product(_, _)
ease_product(steps, from) ==
  IF 5 * from >= steps THEN 1 ELSE (steps + 5 * from) * ease_product(steps, from + 1)

Scale(steps) == steps * ease_product(steps, 1)

\* step_delay = delay_between_steps / speed_factor at index i, times scale:
\*   progress < 0.2:  (movement_time / steps) / ((steps + 5 i) / (2 steps))
\*   progress > 0.8:  (movement_time / steps) / ((steps + 5 (steps - i)) / (2 steps))
\*   else:            movement_time / steps
step_delay(movement_time, steps, i, scale) ==
  IF 5 * i < steps THEN 2 * movement_time * (scale \div (steps + 5 * i))
  ELSE IF 5 * i > 4 * steps THEN 2 * movement_time * (scale \div (6 * steps - 5 * i))
  ELSE movement_time * (scale \div steps)

\* one round of the loop: page.mouse.move(x, y), then asyncio.sleep(step_delay)
move_and_sleep(c) ==
  [c EXCEPT !.pc = IF c.output.i + 1 = c.input.steps THEN "done" ELSE "called",
            !.output = [i |-> c.output.i + 1,
                        slept |-> c.output.slept
                                    + step_delay(c.input.movement_time, c.input.steps,
                                                 c.output.i, Scale(c.input.steps))]]

InitMovement ==
  /\ OthersIdle
  /\ calc \in {[pc |-> "called", input |-> c, output |-> [i |-> 0, slept |-> 0]] : c \in MovementCalls}

MoveMouseToElement ==
  /\ calc.pc = "called"
  /\ calc' = move_and_sleep(calc)
  /\ UNCHANGED otherVars

NextMovement == MoveMouseToElement

SpecMovement == InitMovement /\ [][NextMovement]_vars

(***************************************************************************)
(* Where a movement starts: the position the service stores, the position  *)
(* the page's window tracks, and page loads, which replace the window      *)
(***************************************************************************)
NoPoint == "None"
ViewportCentre == "innerWidth / 2, innerHeight / 2"
ElementCentres == {"element a", "element b", "element c"}
PointerUrls == {URL_EXAMPLE, URL_EVIL}

\* the window of a freshly loaded document: none of the properties the scripts set
NewWindow ==
  [ __mousePosition |-> NoPoint, __mouseTrackingInitialized |-> FALSE,
    __browserUseVisualCursor |-> FALSE, __browserUseCursor |-> NoPoint ]

\* MouseMovementService.__init__ and a page showing url
NewPointer(url) ==
  [ _visual_cursor_initialized |-> FALSE, _last_page_url |-> NoUrl, _stored_position |-> NoPoint,
    url |-> url, window |-> NewWindow,
    start |-> NoPoint, previous_end |-> NoPoint, loaded_since |-> FALSE ]

\* the script of update_visual_cursor: it writes the window's cursor position when the
\* cursor element exists
update_visual_cursor(p, point) ==
  [p EXCEPT !._stored_position = point,
            !.window.__browserUseCursor = IF p.window.__browserUseVisualCursor THEN point ELSE @]

\* create_visual_cursor: once per _visual_cursor_initialized, it creates the cursor element
\* and puts it at the stored position
create_visual_cursor(p) ==
  IF p._visual_cursor_initialized THEN p
  ELSE IF p._stored_position = NoPoint
    THEN [p EXCEPT !._visual_cursor_initialized = TRUE, !.window.__browserUseVisualCursor = TRUE]
  ELSE update_visual_cursor([p EXCEPT !._visual_cursor_initialized = TRUE,
                                      !.window.__browserUseVisualCursor = TRUE],
                            p._stored_position)

\* setup_mouse_tracking: in a window without tracking it sets __mousePosition to the centre
\* of the viewport and adds the mousemove listener
setup_mouse_tracking(p) ==
  IF p.window.__mouseTrackingInitialized THEN p
  ELSE [p EXCEPT !.window.__mousePosition = ViewportCentre,
                 !.window.__mouseTrackingInitialized = TRUE]

\* the position get_current_mouse_position returns: the window's tracked position, else
\* the window's cursor position, else the stored position, else the centre of the viewport
get_current_mouse_position(p) ==
  IF p.window.__mousePosition # NoPoint THEN p.window.__mousePosition
  ELSE IF p.window.__browserUseCursor # NoPoint THEN p.window.__browserUseCursor
  ELSE IF p._stored_position # NoPoint THEN p._stored_position
  ELSE ViewportCentre

\* page.mouse.move(x, y): the mousemove listener, when there is one, tracks the position
mouse_move(p, point) ==
  [p EXCEPT !.window.__mousePosition = IF p.window.__mouseTrackingInitialized THEN point ELSE @]

\* the loop of move_mouse_to_element, up to the last point of the path
move_along_path(p, show_visual_cursor, end) ==
  IF show_visual_cursor
    THEN update_visual_cursor([mouse_move(p, end) EXCEPT !._stored_position = end], end)
  ELSE [mouse_move(p, end) EXCEPT !._stored_position = end]

\* the check of the page's URL at the start of move_mouse_to_element
page_url_checked(p) ==
  [p EXCEPT !._visual_cursor_initialized = IF p._last_page_url # p.url THEN FALSE ELSE @,
            !._last_page_url = p.url]

cursor_created(p, show_visual_cursor) ==
  IF show_visual_cursor THEN create_visual_cursor(p) ELSE p

\* move_mouse_to_element of an enabled service, the path ending at end
move_mouse_to_element(p, show_visual_cursor, end) ==
  [move_along_path(setup_mouse_tracking(cursor_created(page_url_checked(p), show_visual_cursor)),
                   show_visual_cursor, end)
     EXCEPT !.start = get_current_mouse_position(
                        setup_mouse_tracking(cursor_created(page_url_checked(p), show_visual_cursor))),
            !.previous_end = p._stored_position,
            !.loaded_since = FALSE]

InitPointer ==
  /\ OthersIdle
  /\ calc \in {[pc |-> "pointer", input |-> [show_visual_cursor |-> show], output |-> NewPointer(url)] :
                 show \in BOOLEAN, url \in PointerUrls}

MovePointerToElement ==
  \E end \in ElementCentres :
    /\ calc.pc = "pointer"
    /\ calc' = [calc EXCEPT !.output = move_mouse_to_element(@, calc.input.show_visual_cursor, end)]
    /\ UNCHANGED otherVars

\* the agent tab loads a document: a new window, at url
PageLoads ==
  \E url \in PointerUrls :
    /\ calc.pc = "pointer"
    /\ calc' = [calc EXCEPT !.output.url = url, !.output.window = NewWindow,
                            !.output.loaded_since = TRUE]
    /\ UNCHANGED otherVars

NextPointer == MovePointerToElement \/ PageLoads

SpecPointer == InitPointer /\ [][NextPointer]_vars

(***************************************************************************)
(* The save_cookies tasks get_state_summary creates, and stop(). A task    *)
(* runs when the coroutine that holds the event loop awaits.               *)
(***************************************************************************)
MaxTasks == 3

\* a started session: the profile's cookies_file and keep_alive, the browser context, how
\* far stop() is, and the tasks created so far
NewTasks(cookies_file, keep_alive) ==
  [ pc |-> "tasks", input |-> [cookies_file |-> cookies_file, keep_alive |-> keep_alive],
    output |-> [context |-> "open", stop |-> "not called", tasks |-> <<>>] ]

\* `if self.browser_profile.cookies_file: asyncio.create_task(self.save_cookies())`:
\* the task is created, nothing keeps a reference to it
create_task_save_cookies(c) ==
  IF c.input.cookies_file
    THEN [c EXCEPT !.output.tasks = Append(@, [pc |-> "created", context_read |-> "never"])]
  ELSE c

\* save_cookies up to `await self.browser_context.cookies()`: self.browser_context is never
\* unset, so the context is read in whatever state it is
read_cookies(c, t) ==
  [c EXCEPT !.output.tasks[t] = [pc |-> "awaits cookies", context_read |-> c.output.context]]

\* the rest of save_cookies: the file is written, or cookies() raised
write_cookies(c, t) ==
  [c EXCEPT !.output.tasks[t].pc = IF c.output.tasks[t].context_read = "open"
                                        THEN "written" ELSE "raised"]

\* stop() up to `await self.browser_context.close()`
stop_begins(c) ==
  IF c.input.keep_alive THEN [c EXCEPT !.output.stop = "returned"]
  ELSE [c EXCEPT !.output.stop = "awaits close", !.output.context = "closed"]

InitTasks ==
  /\ OthersIdle
  /\ calc \in {NewTasks(cookies_file, keep_alive) : cookies_file \in BOOLEAN, keep_alive \in BOOLEAN}

\* get_state_summary returns; the session is in use
GetStateSummaryCreatesTask ==
  /\ calc.pc = "tasks" /\ calc.output.stop = "not called"
  /\ Len(calc.output.tasks) < MaxTasks
  /\ calc' = create_task_save_cookies(calc)
  /\ UNCHANGED otherVars

\* the event loop runs a task up to its next await
SaveCookiesRuns ==
  \E t \in DOMAIN calc.output.tasks :
    /\ calc.pc = "tasks"
    /\ \/ calc.output.tasks[t].pc = "created" /\ calc' = read_cookies(calc, t)
       \/ calc.output.tasks[t].pc = "awaits cookies" /\ calc' = write_cookies(calc, t)
    /\ UNCHANGED otherVars

StopBegins ==
  /\ calc.pc = "tasks" /\ calc.output.stop = "not called"
  /\ calc' = stop_begins(calc)
  /\ calc' # calc
  /\ UNCHANGED otherVars

StopReturns ==
  /\ calc.pc = "tasks" /\ calc.output.stop = "awaits close"
  /\ calc' = [calc EXCEPT !.output.stop = "returned"]
  /\ UNCHANGED otherVars

NextTasks == GetStateSummaryCreatesTask \/ SaveCookiesRuns \/ StopBegins \/ StopReturns

SpecTasks == InitTasks /\ [][NextTasks]_vars

(***************************************************************************)
(* RecordingService.capture_workflow: the event processor, the browser     *)
(* task and capture_workflow itself are coroutines of one event loop; each *)
(* action is what one of them does between two of its awaits               *)
(***************************************************************************)
MaxEvents == 3

NoWorkflow == "None"
WorkflowPayloads == {"workflow a", "workflow b"}

\* the fields capture_workflow resets, the three coroutines after the browser is launched,
\* and what the run has done so far: posts counts the events received, triggers lists the
\* reasons _capture_and_signal_final_workflow was called with, sets counts the calls of
\* recording_complete_event.set()
NewRecording ==
  [ last_workflow_update_event |-> NoWorkflow, final_workflow_output |-> NoWorkflow,
    recording_complete_event |-> FALSE, final_workflow_processed_flag |-> FALSE,
    event_queue |-> <<>>,
    capture_workflow |-> "waits", browser_task |-> "waits", event_processor_task |-> "waits",
    server |-> "serves", ret |-> NoWorkflow,
    posts |-> 0, triggers |-> <<>>, sets |-> 0 ]

\* variant: the flag is not consulted
not_processed_ever(r) == TRUE

\* `if not self.final_workflow_processed_flag:` under the lock
not_processed(r) == ~r.final_workflow_processed_flag

\* _capture_and_signal_final_workflow(trigger_reason): the body under the lock has no
\* await, and browser.close() of a keep_alive browser returns without one
_capture_and_signal_final_workflow(r, trigger_reason) ==
  IF not_processed(r)
    THEN [r EXCEPT !.final_workflow_processed_flag = TRUE,
                   !.final_workflow_output = r.last_workflow_update_event,
                   !.recording_complete_event = TRUE,
                   !.sets = @ + 1,
                   !.triggers = Append(@, trigger_reason)]
  ELSE [r EXCEPT !.triggers = Append(@, trigger_reason)]

\* _handle_event_post
_handle_event_post(r, type, payload) ==
  [r EXCEPT !.last_workflow_update_event = IF type = "WorkflowUpdate" THEN payload ELSE @,
            !.event_queue = Append(@, type),
            !.posts = @ + 1]

\* one round of the loop of _process_event_queue
_process_event_queue(r) ==
  IF Head(r.event_queue) = "RecordingStopped"
    THEN _capture_and_signal_final_workflow([r EXCEPT !.event_queue = Tail(@)], "RecordingStoppedEvent")
  ELSE [r EXCEPT !.event_queue = Tail(@)]

\* the finally clause of _launch_browser_and_wait
browser_task_ends(r) ==
  [_capture_and_signal_final_workflow(r, "BrowserTaskEnded") EXCEPT !.browser_task = "done"]

\* step 2 of the cleanup: a browser task that is not done is cancelled and awaited
cancel_browser_task(r) ==
  IF r.browser_task # "done" THEN browser_task_ends(r) ELSE r

InitRecording ==
  /\ OthersIdle
  /\ calc = [pc |-> "recording", input |-> <<>>, output |-> NewRecording]

Recording(r) ==
  /\ calc.pc = "recording"
  /\ calc' = [calc EXCEPT !.output = r]
  /\ UNCHANGED otherVars

\* the extension posts an event while the server accepts requests
HandleEventPost ==
  \E type \in {"WorkflowUpdate", "RecordingStopped"}, payload \in WorkflowPayloads :
    /\ calc.output.server = "serves"
    /\ calc.output.posts < MaxEvents
    /\ Recording(_handle_event_post(calc.output, type, payload))

ProcessEventQueue ==
  /\ calc.output.event_processor_task = "waits"
  /\ calc.output.event_queue # <<>>
  /\ Recording(_process_event_queue(calc.output))

\* the user closes the browser: browser_closed_future is resolved
BrowserClosed ==
  /\ calc.output.browser_task = "waits"
  /\ Recording(browser_task_ends(calc.output))

\* `await self.recording_complete_event.wait()` returns, or capture_workflow is cancelled
\* while it waits
CaptureWorkflowWakes ==
  \E cancelled \in BOOLEAN :
    /\ calc.output.capture_workflow = "waits"
    /\ cancelled \/ calc.output.recording_complete_event
    /\ Recording([calc.output EXCEPT !.capture_workflow = "cleanup 1"])

\* step 1 of the cleanup: the server is shut down
ServerShutDown ==
  /\ calc.output.capture_workflow = "cleanup 1"
  /\ Recording([calc.output EXCEPT !.capture_workflow = "cleanup 2", !.server = "shut down"])

\* step 2 of the cleanup
CancelBrowserTask ==
  /\ calc.output.capture_workflow = "cleanup 2"
  /\ Recording([cancel_browser_task(calc.output) EXCEPT !.capture_workflow = "cleanup 3"])

\* step 3 of the cleanup and `return self.final_workflow_output`
CaptureWorkflowReturns ==
  /\ calc.output.capture_workflow = "cleanup 3"
  /\ Recording([calc.output EXCEPT !.capture_workflow = "returned",
                                   !.event_processor_task = "cancelled",
                                   !.ret = calc.output.final_workflow_output])

NextRecording ==
  \/ HandleEventPost \/ ProcessEventQueue \/ BrowserClosed
  \/ CaptureWorkflowWakes \/ ServerShutDown \/ CancelBrowserTask \/ CaptureWorkflowReturns

SpecRecording == InitRecording /\ [][NextRecording]_vars

(***************************************************************************)
(* notify_job_completion and the WebSocket handlers of one job. The        *)
(* handlers run while notify_job_completion awaits send_json.              *)
(***************************************************************************)
WebSockets == {"ws 1", "ws 2"}

NoSocket == "None"

\* active_connections: whether it has the job's key, and the set under it
NoConnections == [has_job |-> FALSE, set |-> {}]

\* job_store without the job
NoJob == [has_job |-> FALSE, status |-> "None", completed_at |-> FALSE]

\* sent[w] lists the status of every message sent to w, with the function that sent it
NewNotification ==
  [ active_connections |-> NoConnections,
    job_store |-> NoJob,
    task    |-> "not added",
    closed  |-> {},                                  \* sockets whose client has gone
    handler |-> [w \in WebSockets |-> "not connected"],
    sent    |-> [w \in WebSockets |-> <<>>],
    notify  |-> [pc |-> "not called", status |-> "None", connections_to_notify |-> {},
                 to_notify |-> {}, connection |-> NoSocket, err |-> "ok"] ]

Message(by, status) == [by |-> by, status |-> status]

\* `if job_id not in active_connections: active_connections[job_id] = set()` and add
add_connection(a, w) == [has_job |-> TRUE, set |-> a.set \cup {w}]

\* the finally clause of websocket_endpoint
clean_up_connection(a, w) ==
  IF a.has_job /\ a.set \ {w} = {} THEN NoConnections
  ELSE [a EXCEPT !.set = @ \ {w}]

\* the loop takes connection w of connections_to_notify and awaits send_json
next_connection(n, w) ==
  [n EXCEPT !.pc = "sends", !.connection = w, !.to_notify = @ \ {w}]

\* notify_job_completion up to its first await, w being the first connection of
\* list(active_connections[job_id])
notify_begins(d, status, w) ==
  IF ~d.active_connections.has_job
    THEN [d EXCEPT !.notify.pc = "returned", !.notify.status = status]
  ELSE [d EXCEPT !.notify = next_connection(
                              [@ EXCEPT !.status = status,
                                        !.connections_to_notify = d.active_connections.set,
                                        !.to_notify = d.active_connections.set], w)]

\* w is a connection the list may give next
may_be_next(connections, w) == connections = {} \/ w \in connections

\* `except RuntimeError: active_connections[job_id].remove(connection)`: the subscript
\* raises KeyError when the job's key is gone, remove when the connection is
remove_closed(d) ==
  IF d.notify.connection \notin d.closed
    THEN [d EXCEPT !.sent[d.notify.connection] = Append(@, Message("notify", d.notify.status))]
  ELSE IF ~d.active_connections.has_job \/ d.notify.connection \notin d.active_connections.set
    THEN [d EXCEPT !.notify.err = "KeyError"]
  ELSE [d EXCEPT !.active_connections.set = @ \ {d.notify.connection}]

\* `if not active_connections[job_id]: del active_connections[job_id]`
clean_up_if_empty(d) ==
  IF ~d.active_connections.has_job THEN [d EXCEPT !.notify.err = "KeyError"]
  ELSE IF d.active_connections.set = {} THEN [d EXCEPT !.active_connections = NoConnections]
  ELSE d

\* notify_job_completion raised, or returned after its clean-up
notify_ends(d) ==
  IF d.notify.err # "ok" THEN [d EXCEPT !.notify.pc = "raised"]
  ELSE IF clean_up_if_empty(d).notify.err # "ok"
    THEN [clean_up_if_empty(d) EXCEPT !.notify.pc = "raised"]
  ELSE [clean_up_if_empty(d) EXCEPT !.notify.pc = "returned"]

\* after send_json returned or raised: the next round of the loop, w being the next
\* connection, or the end of the function
continue_loop(d, w) ==
  IF d.notify.err # "ok" \/ d.notify.to_notify = {} THEN notify_ends(d)
  ELSE [d EXCEPT !.notify = next_connection(@, w)]

InitNotify ==
  /\ OthersIdle
  /\ calc = [pc |-> "notify", input |-> <<>>, output |-> NewNotification]

Notifying(d) ==
  /\ calc.pc = "notify"
  /\ calc' = [calc EXCEPT !.output = d]
  /\ UNCHANGED otherVars

\* the message websocket_endpoint sends on connection when the job is in job_store
initial_status(d, w) ==
  IF d.job_store.has_job
    THEN [d EXCEPT !.sent[w] = Append(@, Message("websocket_endpoint", d.job_store.status))]
  ELSE d

\* websocket_endpoint up to its receive loop
WebsocketConnects ==
  \E w \in WebSockets :
    /\ calc.output.handler[w] = "not connected"
    /\ Notifying(initial_status([calc.output EXCEPT !.handler[w] = "connected",
                                                    !.active_connections = add_connection(@, w)], w))

\* the client goes away
ClientDisconnects ==
  \E w \in WebSockets :
    /\ calc.output.handler[w] = "connected" /\ w \notin calc.output.closed
    /\ Notifying([calc.output EXCEPT !.closed = @ \cup {w}])

\* receive_text raises WebSocketDisconnect in the handler: its finally clause runs
WebsocketCleansUp ==
  \E w \in WebSockets :
    /\ calc.output.handler[w] = "connected" /\ w \in calc.output.closed
    /\ Notifying([calc.output EXCEPT !.handler[w] = "returned",
                                     !.active_connections = clean_up_connection(@, w)])

NotifyJobCompletion ==
  \E status \in {"completed", "failed"}, w \in WebSockets :
    /\ calc.output.notify.pc = "not called"
    /\ may_be_next(calc.output.active_connections.set, w)
    /\ Notifying(notify_begins(calc.output, status, w))

\* send_json returned, or raised RuntimeError because the connection is closed
NotifySent ==
  \E w \in WebSockets :
    /\ calc.output.notify.pc = "sends"
    /\ may_be_next(calc.output.notify.to_notify, w)
    /\ Notifying(continue_loop(remove_closed(calc.output), w))

NextNotify ==
  \/ WebsocketConnects \/ ClientDisconnects \/ WebsocketCleansUp
  \/ NotifyJobCompletion \/ NotifySent

SpecNotify == InitNotify /\ [][NextNotify]_vars

(***************************************************************************)
(* A job of generate_demo or run_saved_workflow: its entry in job_store,   *)
(* its background task, and the notification the task ends with            *)
(***************************************************************************)
\* the entry generate_demo and run_saved_workflow store
queued_job == [has_job |-> TRUE, status |-> "queued", completed_at |-> FALSE]

\* job_store[job_id].update({"status": status, ..., "completed_at": datetime.now()})
job_update(d, status) ==
  [d EXCEPT !.job_store.status = status, !.job_store.completed_at = TRUE]

\* the finally clause of the task:
\* notify_job_completion(job_id, job_store.get(job_id, {}).get("status", ...)), up to its
\* first await
task_finally(d, w) == [notify_begins(d, d.job_store.status, w) EXCEPT !.task = "notifies"]

\* generate_demo, run_saved_workflow: the job is stored and the task added
CreateJob ==
  /\ calc.output.task = "not added"
  /\ Notifying([calc.output EXCEPT !.job_store = queued_job, !.task = "added"])

\* process_demo_task, process_workflow_execution_task up to the await of the run
TaskStarts ==
  /\ calc.output.task = "added"
  /\ Notifying([calc.output EXCEPT !.job_store.status = "processing", !.task = "runs"])

\* the run returned and its result was stored, or something raised: the status is stored
\* and the finally clause begins
TaskEnds ==
  \E status \in {"completed", "failed"}, w \in WebSockets :
    /\ calc.output.task = "runs"
    /\ may_be_next(calc.output.active_connections.set, w)
    /\ Notifying(task_finally(job_update(calc.output, status), w))

NextJobs ==
  \/ CreateJob \/ TaskStarts \/ TaskEnds
  \/ WebsocketConnects \/ ClientDisconnects \/ WebsocketCleansUp
  \/ NotifySent

SpecJobs == InitNotify /\ [][NextJobs]_vars

(***************************************************************************)
(* Properties                                                              *)
(***************************************************************************)
open_pages == Range(session.pages)

\* the error of require_initialization for a session that was not started
NotInitializedError == "RuntimeError"

\* C1: when start() returns normally the session holds exactly one browser context
\* with at least one open tab (a blank one if the context had none), and
\* agent_current_page and human_current_page are both open tabs of that context.
C1_StartLeavesContextAndOpenTabs ==
  (last.op = "start" /\ last.err = "ok") =>
    /\ session.initialized
    /\ session.browser_context # NULL
    /\ session.contexts = 1
    /\ Len(session.pages) >= 1
    /\ session.agent_current_page \in open_pages
    /\ session.human_current_page \in open_pages
    /\ last.index = 0 => (session.pages = <<1>> /\ session.url[1] = ABOUT_BLANK)

\* C1 witness: start() returned on a context that held no page
C1_Witness ==
  /\ last.op = "start" /\ last.err = "ok" /\ last.index = 0
  /\ session.pages = <<1>>
  /\ session.agent_current_page = 1 /\ session.human_current_page = 1

\* the operations C2 lists
C2_Operations ==
  {"navigate", "navigate_to", "refresh", "execute_javascript", "switch_to_tab", "create_new_tab",
   "close_current_tab", "go_back", "get_current_page", "get_state_summary"}

\* the operations under @require_initialization
DecoratedOperations ==
  {"navigate", "refresh", "execute_javascript", "switch_tab", "switch_to_tab", "close_tab"}

\* C2 as stated: every operation other than start called before start() has completed
\* fails with the not-initialized error and does nothing to the browser.
C2_Original_EveryOperationRequiresStart ==
  [][(~session.initialized /\ last'.op \in C2_Operations) =>
       (last'.err = NotInitializedError /\ session' = session)]_vars

\* C2 as amended: before start() has completed the operations under
\* @require_initialization fail with the not-initialized error and do nothing;
\* get_current_page, and navigate_to (for an allowed URL), go_back and
\* get_state_summary through it, call start() themselves; create_new_tab and
\* close_current_tab fail with another error and do nothing.
C2_DecoratedOperationsRequireStart ==
  [][~session.initialized =>
       /\ last'.op \in DecoratedOperations =>
            (last'.err = NotInitializedError /\ session' = session)
       /\ (\/ last'.op \in {"get_current_page", "go_back", "get_state_summary"}
           \/ last'.op = "navigate_to" /\ last'.err # "BrowserError") =>
            (session'.initialized /\ session'.contexts = 1 /\ Len(session'.pages) >= 1)
       /\ last'.op \in {"create_new_tab", "close_current_tab"} =>
            (last'.err \in {"AttributeError", "BrowserError"} /\ session' = session)]_vars

\* C2 witness: navigate() before start() raised the not-initialized error
C2_Witness ==
  /\ last.op = "navigate" /\ last.err = NotInitializedError
  /\ ~session.initialized /\ session.browser_context = NULL

\* C3: after any sequence of the tab operations and focus events, agent_current_page
\* and human_current_page are each either null or an open tab, never a closed one.
C3_ReferencesAreNullOrOpen ==
  /\ session.agent_current_page \in open_pages \cup {NoPage}
  /\ session.human_current_page \in open_pages \cup {NoPage}

\* C3 witness: close_tab closed a tab both references pointed at and another tab took over
C3_Witness ==
  /\ last.op = "close_tab" /\ last.err = "ok" /\ last.index = 1
  /\ session.created = 2 /\ session.pages = <<1>>
  /\ session.agent_current_page = 1 /\ session.human_current_page = 1

\* C4: a focus event for tab T sets human_current_page to T and leaves
\* agent_current_page and the open tabs unchanged, in every state it can arrive in.
C4_FocusEventMovesHumanTabOnly ==
  [][last'.op = "_BrowserUseonTabVisibilityChange" =>
       /\ session'.human_current_page = last'.index + 1
       /\ session'.agent_current_page = session.agent_current_page
       /\ session'.pages = session.pages]_vars

\* C5: when create_new_tab returns normally the tab it created is agent_current_page;
\* human_current_page becomes the new tab exactly when it was null or closed before
\* the call and is otherwise unchanged.
C5_NewTabBecomesAgentTab ==
  [][(last'.op = "create_new_tab" /\ last'.err = "ok") =>
       LET new_tab == session.created + 1
       IN /\ session'.created = new_tab
          /\ session'.pages = Append(session.pages, new_tab)
          /\ session'.agent_current_page = new_tab
          /\ session'.human_current_page =
               IF Gone(session, session.human_current_page) THEN new_tab
               ELSE session.human_current_page]_vars

\* C5 witness: create_new_tab returned and the human tab stayed on another open tab
C5_Witness ==
  /\ last.op = "create_new_tab" /\ last.err = "ok"
  /\ session.agent_current_page = session.created
  /\ session.human_current_page \in open_pages \ {session.created}

\* the operations C6 lists
C6_Operations ==
  {"navigate", "navigate_to", "create_new_tab", "switch_tab", "switch_to_tab", "close_current_tab"}

\* C6: with a non-empty allowed-domain list, no operation that navigates the agent tab
\* or changes which tab is the agent tab returns normally with agent_current_page on
\* a URL that _is_url_allowed rejects.
C6_AgentTabStaysOnAllowedUrls ==
  [][(/\ session.allowed_domains # <<>>
      /\ last'.op \in C6_Operations
      /\ last'.err = "ok"
      /\ session'.agent_current_page # NoPage) =>
       url_allowed(session', session'.url[session'.agent_current_page])]_vars

C8_DisallowedUrlIsFatalForStateSummary ==
  [][(last'.op = "get_state_summary" /\ last'.found_disallowed) =>
       /\ last'.err = "URLNotAllowedError"
       /\ last'.go_backs = 1
       /\ last'.summary = NoSummary
       /\ session'.cached_browser_state_summary = session.cached_browser_state_summary
       /\ session'.browser_state_summary = session.browser_state_summary]_vars

\* C8 witness: get_state_summary raised URLNotAllowedError after an earlier call had
\* returned a summary
C8_Witness ==
  /\ last.op = "get_state_summary" /\ last.found_disallowed
  /\ last.err = "URLNotAllowedError" /\ last.go_backs = 1
  /\ session.cached_browser_state_summary # NoSummary

\* entries C9 speaks of: "*.D" with D free of wildcards, and entries without "*"
IsStarDotEntry(e) == StartsWith(e, <<"*", ".">>) /\ Len(e) > 2 /\ "*" \notin Range(From(e, 3))
IsExactEntry(e) == "*" \notin Range(e)

\* what C9 says an entry allows
C9_EntryShouldAllow(host, e) ==
  IF IsStarDotEntry(e)
    THEN Lower(host) = Lower(From(e, 3)) \/ EndsWith(Lower(host), <<".">> \o Lower(From(e, 3)))
    ELSE Lower(host) = Lower(e)

Redecorated(d) == UrlOf([g_parts EXCEPT !.d = d])

SameSchemeAndHostname(u1, u2) ==
  UrlScheme(u1) = UrlScheme(u2) /\ UrlHostname(u1) = UrlHostname(u2)

\* the host component of g_parts is on none of the entries (exact or "*.D") of g_allowed
C10_HostNotListed ==
  /\ g_allowed # <<>>
  /\ \A k \in 1..Len(g_allowed) :
       /\ IsStarDotEntry(g_allowed[k]) \/ IsExactEntry(g_allowed[k])
       /\ ~C9_EntryShouldAllow(g_parts.host, g_allowed[k])

\* C10 as stated: the decision depends only on the URL's scheme and lower-cased
\* hostname (URLs with the same scheme and hostname that differ in user-info, port,
\* path, query or fragment get the same decision), and a URL that carries an allowed
\* domain only in its user-info, port or path is rejected.
C10_Original_DecisionFromSchemeAndHostname ==
  g_result # "unchecked" =>
    /\ \A d \in Decorations :
         SameSchemeAndHostname(Redecorated(d), g_url) =>
           (_is_url_allowed(Redecorated(d), g_allowed) <=> g_result = "allowed")
    /\ C10_HostNotListed => g_result = "rejected"

\* C10 as amended: for every URL other than the exact string about:blank the decision
\* depends only on the scheme and the lower-cased hostname, and a URL whose scheme is
\* not one of the always-allowed internal schemes and that carries an allowed domain
\* only in its user-info, port or path is rejected.
C10_DecisionFromSchemeAndHostname ==
  g_result # "unchecked" =>
    /\ \A d \in Decorations :
         (/\ g_url # ABOUT_BLANK
          /\ Redecorated(d) # ABOUT_BLANK
          /\ SameSchemeAndHostname(Redecorated(d), g_url)) =>
           (_is_url_allowed(Redecorated(d), g_allowed) <=> g_result = "allowed")
    /\ (/\ C10_HostNotListed
        /\ g_url # ABOUT_BLANK
        /\ UrlScheme(g_url) \notin InternalSchemes) => g_result = "rejected"

\* C11: _wait_for_stable_network returns before the ceiling has elapsed only when no
\* request is pending and at least the idle time has passed since the last tracked
\* request start or counted response; with the last response at 1.0 s and an idle
\* time of 0.5 s it does not return before 1.5 s.
C11_EarlyReturnOnlyWhenIdle ==
  (net.pc = "returned" /\ net.returned_at - net.start_time <= net.max_time) =>
    /\ net.pending = {}
    /\ net.returned_at - net.last_event >= net.idle_time
    /\ (net.idle_time = 5 /\ net.last_event = 10) => net.returned_at >= 15

\* C11 witness: the last response came at 1.0 s, the idle time is 0.5 s, the wait
\* returned at 1.5 s
C11_Witness ==
  /\ net.pc = "returned" /\ net.idle_time = 5 /\ net.max_time = 30
  /\ net.started # {} /\ net.pending = {}
  /\ net.last_event = 10 /\ net.returned_at = 15

\* C12: whatever is pending, _wait_for_stable_network has returned by the time
\* maximum_wait_page_load_time has elapsed since the wait began: with a ceiling of
\* 1.2 s it returns at 1.2 s, not at a later poll.
C12_ReturnsByTheCeiling ==
  net.pc = "returned" => net.returned_at - net.start_time <= net.max_time

C14_StopReturnsTheClicksSinceStart ==
  (mouse.call.op = "stop_recording" /\ mouse.window # "none") =>
    /\ Len(mouse.call.ret) = Len(mouse.performed)
    /\ \A i \in 1..Len(mouse.call.ret) :
         i <= Len(mouse.performed) =>
           /\ mouse.call.ret[i].x = mouse.performed[i].x
           /\ mouse.call.ret[i].y = mouse.performed[i].y
           /\ mouse.call.ret[i].page_url = mouse.performed[i].page_url
           /\ mouse.call.ret[i].timestamp = mouse.performed[i].at - mouse.started_at
    /\ \A i, j \in 1..Len(mouse.call.ret) :
         i < j => mouse.call.ret[i].timestamp < mouse.call.ret[j].timestamp

\* C14 witness: a recording started after the clock had run returned two clicks on
\* different pages
C14_Witness ==
  /\ mouse.call.op = "stop_recording" /\ mouse.window = "closed"
  /\ mouse.started_at > 0
  /\ Len(mouse.call.ret) = 2 /\ Len(mouse.performed) = 2
  /\ mouse.call.ret[1].page_url # mouse.call.ret[2].page_url
  /\ mouse.call.ret[1].timestamp < mouse.call.ret[2].timestamp

\* C15: a click made while no recording window is open (before the first
\* start_recording, or after a stop_recording) leaves the click log unchanged.
C15_ClicksOnlyInsideWindow ==
  [][(mouse'.call.op = "click_element_with_movement" /\ mouse.window # "open") =>
       mouse'.svc._click_events = mouse.svc._click_events]_vars

\* C16: click_element_with_movement moves, pauses, clicks and then records; a click
\* that raises appends no event to the log.
C16_EventOnlyAfterSuccessfulClick ==
  [][mouse'.call.op = "click_element_with_movement" =>
       /\ mouse'.call.err = "ok" => mouse'.call.steps = <<"move", "pause", "click", "record">>
       /\ mouse'.call.err # "ok" => mouse'.svc._click_events = mouse.svc._click_events]_vars

\* C17: stop_recording writes the file with the recording start time and the click
\* list into the directory given to start_recording, also when no click was recorded,
\* and writes nothing when no directory was given.
C17_FileWheneverDirectorySupplied ==
  [][mouse'.call.op = "stop_recording" =>
       /\ (dir_given(mouse.svc._recording_dir) /\ mouse'.call.err = "ok") =>
            [dir |-> mouse.svc._recording_dir,
             recording_start_time |-> mouse.svc._recording_start_time,
             clicks |-> mouse'.call.ret] \in mouse'.fs
       /\ ~dir_given(mouse.svc._recording_dir) => mouse'.fs = mouse.fs]_vars

\* C18: with keep_alive unset, stop() on a session that launched its own browser
\* terminates the child process it discovered, and stop() on a session connected over
\* CDP/WSS or given a browser or a context leaves browser, context and process untouched.
C18_StopClosesOnlyWhatTheSessionLaunched ==
  [][(life'.call.op = "stop" /\ life.pc = "started" /\ life.args.keep_alive = "None") =>
       /\ (life.launched /\ life.chrome_pid = ChildPid) =>
            "process" \in Range(life'.call.attempts)
       /\ Supplied(life.args) =>
            (life'.open = life.open /\ life'.call.attempts = <<>>)]_vars

\* C19: stop() never raises; unless keep_alive holds it tries to close the context the
\* session has, then the browser it has, then to terminate the chrome process it knows,
\* whatever failed before; __aexit__ does the same, whether or not the body raised.
C19_StopNeverRaisesAndTriesEveryStep ==
  [][life'.call.op \in {"stop", "__aexit__"} =>
       /\ life'.call.err = "ok"
       /\ life.keep_alive # "True" =>
            /\ life.browser_context # "None" => "context" \in Range(life'.call.attempts)
            /\ life.browser # "None" => "browser" \in Range(life'.call.attempts)
            /\ life.chrome_pid # NoPid => "process" \in Range(life'.call.attempts)]_vars

\* C19 witness: the body of the `async with` raised, closing the context failed and
\* closing the browser failed, and the process was still terminated
C19_Witness ==
  /\ life.call.op = "__aexit__" /\ life.call.body_raised
  /\ life.call.err = "ok"
  /\ life.call.attempts = <<"context", "browser", "process">>
  /\ life.open.context /\ life.open.browser /\ ~life.open.process

\* C20: start() on a session that is already initialized is a no-op: it returns
\* without error, registers no second focus bridge and leaves the context, the tabs
\* and the tab references as they were.
C20_StartOnInitializedIsNoOp ==
  [][(session.initialized /\ last'.op = "start") =>
       (last'.err = "ok" /\ session' = session)]_vars

\* C21: get_tabs_info returns one entry per open tab and does not raise because the
\* title of a tab hangs: the hung tab is listed with url about:blank and the 'ignore
\* this tab' title, the other tabs with their own url.
C21_HungTabIsListedWithPlaceholder ==
  (calc.pc = "done" /\ \A i \in 1..Len(calc.input) : calc.input[i].title \in {"title", "hangs"}) =>
    /\ calc.output.err = "ok"
    /\ Len(calc.output.ret) = Len(calc.input)
    /\ \A i \in 1..Len(calc.input) :
         i <= Len(calc.output.ret) =>
           /\ calc.output.ret[i].page_id = i - 1
           /\ calc.input[i].title = "hangs" =>
                (calc.output.ret[i].url = ABOUT_BLANK
                 /\ calc.output.ret[i].title = "ignore this tab and do not use it")
           /\ calc.input[i].title = "title" => calc.output.ret[i].url = calc.input[i].url

\* C22 as stated: text input clicks first, tries clear plus typing, on failure a fill,
\* and only after the fill failed the page keystrokes; a BrowserError is raised only
\* after all three have failed.
C22_Original_ThreeTiers ==
  calc.pc = "done" =>
    /\ calc.output.steps # <<>> => calc.output.steps[1] = "click"
    /\ ("clear+type" \in Range(calc.output.steps) /\ calc.input.type_fails) =>
         "fill" \in Range(calc.output.steps)
    /\ "keyboard.type" \in Range(calc.output.steps) =>
         ("fill" \in Range(calc.output.steps) /\ calc.input.fill_fails)
    /\ calc.output.err = "BrowserError" =>
         {"clear+type", "fill", "keyboard.type"} \subseteq Range(calc.output.steps)

\* C22: text input clicks the element first; it then uses one input method, clear plus
\* typing for a writable input or contenteditable and fill otherwise; it falls back to
\* page keystrokes exactly when that method raised; a BrowserError is raised exactly
\* when the element is not found, its properties or the click raise, or the method and
\* the keystrokes both raise.
C22_OneMethodThenKeystrokes ==
  calc.pc = "done" =>
    /\ calc.output.steps # <<>> => calc.output.steps[1] = "click"
    /\ (calc.input.found /\ ~calc.input.properties_fail) => calc.output.steps # <<>>
    /\ ~("clear+type" \in Range(calc.output.steps) /\ "fill" \in Range(calc.output.steps))
    /\ (Len(calc.output.steps) >= 2 /\ calc.input.typeable) => calc.output.steps[2] = "clear+type"
    /\ (Len(calc.output.steps) >= 2 /\ ~calc.input.typeable) => calc.output.steps[2] = "fill"
    /\ (Len(calc.output.steps) >= 1 /\ ~calc.input.click_fails) => Len(calc.output.steps) >= 2
    /\ "keyboard.type" \in Range(calc.output.steps) <=>
         /\ calc.input.found /\ ~calc.input.properties_fail /\ ~calc.input.click_fails
         /\ IF calc.input.typeable THEN calc.input.type_fails ELSE calc.input.fill_fails
    /\ calc.output.err = "BrowserError" <=>
         \/ ~calc.input.found \/ calc.input.properties_fail \/ calc.input.click_fails
         \/ /\ IF calc.input.typeable THEN calc.input.type_fails ELSE calc.input.fill_fails
            /\ calc.input.keyboard_fails
    /\ calc.output.err \in {"ok", "BrowserError"}

\* C22 witness: typing raised, fill was never tried, the keystrokes went through
C22_Witness ==
  /\ calc.pc = "done"
  /\ calc.output.steps = <<"click", "clear+type", "keyboard.type">>
  /\ calc.output.err = "ok"
  /\ ~calc.input.fill_fails

\* C23: for integer endpoints and N >= 1 steps the linear generator returns N + 1
\* waypoints, the k-th being start + (end - start) * k / N.
C23_LinearWaypointsAreExact ==
  calc.pc = "done" =>
    /\ Len(calc.output) = calc.input.steps + 1
    /\ \A i \in 1..Len(calc.output) :
         /\ calc.output[i].x * calc.input.steps =
              calc.input.start_x * calc.input.steps
                + (calc.input.end_x - calc.input.start_x) * (i - 1)
         /\ calc.output[i].y * calc.input.steps =
              calc.input.start_y * calc.input.steps
                + (calc.input.end_y - calc.input.start_y) * (i - 1)

\* C24 as stated: the bezier and the human path both begin exactly at the start point
\* and end exactly at the end point, whatever the random choices.
C24_Original_PathsBeginAtStartAndEndAtEnd ==
  calc.pc = "done" =>
    /\ calc.output[1] = [x |-> calc.input.start_x, y |-> calc.input.start_y]
    /\ calc.output[Len(calc.output)] = [x |-> calc.input.end_x, y |-> calc.input.end_y]

\* C24: for steps >= 1 both paths have steps + 1 waypoints and end exactly at the end
\* point; the bezier path begins exactly at the start point; the first waypoint of the
\* human path is the start point moved by the noise of the first waypoint, less than
\* 3 * speed_variation + 1 on each axis.
C24_PathsEndAtEnd ==
  calc.pc = "done" =>
    /\ Len(calc.output) = calc.input.steps + 1
    /\ calc.output[Len(calc.output)] = [x |-> calc.input.end_x, y |-> calc.input.end_y]
    /\ calc.input.pattern = "bezier" =>
         calc.output[1] = [x |-> calc.input.start_x, y |-> calc.input.start_y]
    /\ 10 * (calc.output[1].x - calc.input.start_x) < 3 * calc.input.speed_variation10 + 10
    /\ 10 * (calc.input.start_x - calc.output[1].x) < 3 * calc.input.speed_variation10 + 10
    /\ 10 * (calc.output[1].y - calc.input.start_y) < 3 * calc.input.speed_variation10 + 10
    /\ 10 * (calc.input.start_y - calc.output[1].y) < 3 * calc.input.speed_variation10 + 10

\* C24 witness: a human path of two steps that ends at the end point and does not
\* begin at the start point
C24_Witness ==
  /\ calc.pc = "done" /\ calc.input.pattern = "human" /\ calc.input.steps = 2
  /\ calc.output[1].x # calc.input.start_x
  /\ calc.output[3] = [x |-> calc.input.end_x, y |-> calc.input.end_y]
  /\ calc.input.draws[5] # 0

\* C25: _wait_for_page_and_frames_load never returns normally before the minimum wait
\* (timeout_overwrite when one is given) has passed since it was entered, also when the
\* network wait ended sooner or an exception other than URLNotAllowedError was swallowed.
C25_NoReturnBeforeMinimumWait ==
  load.pc = "returned" =>
    load.returned_at >= (IF load.timeout_overwrite # NoTime THEN load.timeout_overwrite
                          ELSE load.minimum)

\* C25 witness: the network wait ended before the minimum wait, the navigation check raised
\* an exception that was swallowed, and the method has returned.
C25_Witness ==
  /\ load.pc = "returned"
  /\ load.swallowed
  /\ net.pc = "returned"
  /\ net.returned_at < python_or(load.timeout_overwrite, load.minimum)

\* C28: while a network wait runs the page carries its request and its response listener,
\* and once control has left the wait, however it left, the page carries no listener.
C28_ListenersOnlyDuringTheWait ==
  /\ load.pc = "network" => \A event \in DOMAIN load.listeners : load.listeners[event] = 1
  /\ load.pc # "network" => \A event \in DOMAIN load.listeners : load.listeners[event] = 0

\* C28 witness: the second wait of the session was cancelled inside its loop.
C28_Witness ==
  /\ load.calls = 2
  /\ load.pc = "raised"
  /\ load.err = "CancelledError"
  /\ net.pc = "cancelled"
  /\ net.now > 0

\* C26: after get_state_summary with hash caching on has returned a summary: when hashes were
\* cached for the summary's url, an element is flagged new exactly when its hash was not among
\* them; when none were cached or they were cached for another url, no element is flagged
\* new; and the hashes cached now are those of the summary returned.
C26_NewExactlyWhenHashWasNotCached ==
  (snap.call.err = "ok" /\ snap.call.cache_clickable_elements_hashes) =>
    /\ \A h \in DOMAIN snap.call.ret.is_new :
         (snap.call.ret.is_new[h] = "True") <=>
           /\ snap.call.hashes_before # NoHashes
           /\ snap.call.hashes_before.url = snap.call.ret.url
           /\ h \notin snap.call.hashes_before.hashes
    /\ snap.cached_clickable_element_hashes =
         [url |-> snap.call.ret.url, hashes |-> DOMAIN snap.call.ret.is_new]

\* C26 witness: on an unchanged url one element is flagged new and another is not.
C26_Witness ==
  /\ snap.call.err = "ok"
  /\ snap.call.cache_clickable_elements_hashes
  /\ snap.call.hashes_before.url = snap.call.ret.url
  /\ \E h1, h2 \in DOMAIN snap.call.ret.is_new :
       snap.call.ret.is_new[h1] = "True" /\ snap.call.ret.is_new[h2] = "False"

\* C27: a response to a pending request whose content-type names a streaming or media type,
\* or names none of the relevant types, or whose content-length is above 5 MB, takes the
\* request out of the pending set and leaves last_activity alone; a response to a pending
\* request that passes the three filters takes it out and sets last_activity to the current
\* time; last_activity changes in no other case; and a response to a request that is not
\* pending changes nothing.
C27_OnlyCountedResponseIsActivity ==
  calc.pc = "done" =>
    /\ calc.input.request \notin calc.input.w.pending => calc.output.w = calc.input.w
    /\ ( /\ calc.input.request \in calc.input.w.pending
         /\ \/ ContentTypeWords[calc.input.headers.content_type] \cap StreamingTypes # {}
            \/ ContentTypeWords[calc.input.headers.content_type] \cap RELEVANT_CONTENT_TYPES = {}
            \/ calc.input.headers.content_length = "5242881" ) =>
         /\ calc.output.w.pending = calc.input.w.pending \ {calc.input.request}
         /\ calc.output.w.last_activity = calc.input.w.last_activity
    /\ ( /\ calc.input.request \in calc.input.w.pending
         /\ ContentTypeWords[calc.input.headers.content_type] \cap StreamingTypes = {}
         /\ ContentTypeWords[calc.input.headers.content_type] \cap RELEVANT_CONTENT_TYPES # {}
         /\ calc.input.headers.content_length \in {"None", "", "0", "5242880"} ) =>
         /\ calc.output.w.pending = calc.input.w.pending \ {calc.input.request}
         /\ calc.output.w.last_activity = calc.input.w.now
    /\ calc.output.w.last_activity # calc.input.w.last_activity =>
         /\ calc.input.request \in calc.input.w.pending
         /\ ContentTypeWords[calc.input.headers.content_type] \cap StreamingTypes = {}
         /\ ContentTypeWords[calc.input.headers.content_type] \cap RELEVANT_CONTENT_TYPES # {}
         /\ calc.input.headers.content_length # "5242881"

\* C27 witness: a response of more than 5 MB with a relevant content-type was dropped while
\* another request stays pending.
C27_Witness ==
  /\ calc.pc = "done"
  /\ calc.input.headers = [content_type |-> "text/html; charset=utf-8", content_length |-> "5242881"]
  /\ calc.input.request \in calc.input.w.pending
  /\ calc.input.w.now > calc.input.w.last_activity
  /\ calc.output.w.pending # {}
  /\ calc.output.w.last_activity = calc.input.w.last_activity

\* C29: when move_mouse_to_element has made its last step, the sum of the step delays it
\* slept equals the movement time it sampled, and lies between min_movement_time and
\* max_movement_time.
C29_MovementTakesTheSampledDuration ==
  calc.pc = "done" =>
    /\ calc.output.slept = calc.input.movement_time * Scale(calc.input.steps)
    /\ calc.output.slept >= calc.input.config.min_movement_time * Scale(calc.input.steps)
    /\ calc.output.slept <= calc.input.config.max_movement_time * Scale(calc.input.steps)

\* C30 as stated: with an empty allow-list every URL is allowed; with a non-empty one
\* about:blank and the URLs of scheme chrome, brave, edge and chrome-extension are allowed,
\* and every other URL that has no hostname or that makes the check raise is rejected.
C30_Original_FailsClosed ==
  g_result # "unchecked" =>
    /\ g_allowed = <<>> => g_result = "allowed"
    /\ (g_allowed # <<>> /\ (g_url = ABOUT_BLANK \/ Lower(g_parts.scheme) \in InternalSchemes)) =>
         g_result = "allowed"
    /\ ( /\ g_allowed # <<>>
         /\ g_url # ABOUT_BLANK
         /\ Lower(g_parts.scheme) \notin InternalSchemes
         /\ (~g_parts.authority \/ g_parts.host = <<>> \/ g_parts.host \in MalformedHosts) ) =>
         g_result = "rejected"

\* C30 as amended: with an empty allow-list every URL is allowed; with a non-empty one a URL
\* that urlparse does not accept is rejected whatever its scheme, and of the others
\* about:blank and the URLs of scheme chrome, brave, edge and chrome-extension are allowed
\* and every other URL without a hostname is rejected.
C30_FailsClosed ==
  g_result # "unchecked" =>
    /\ g_allowed = <<>> => g_result = "allowed"
    /\ (g_allowed # <<>> /\ g_parts.host \in MalformedHosts) => g_result = "rejected"
    /\ ( /\ g_allowed # <<>>
         /\ g_parts.host \notin MalformedHosts
         /\ (g_url = ABOUT_BLANK \/ Lower(g_parts.scheme) \in InternalSchemes) ) =>
         g_result = "allowed"
    /\ ( /\ g_allowed # <<>>
         /\ g_url # ABOUT_BLANK
         /\ Lower(g_parts.scheme) \notin InternalSchemes
         /\ (~g_parts.authority \/ g_parts.host = <<>>) ) =>
         g_result = "rejected"

\* C30 witness: an https URL that urlparse does not accept was rejected under a list that
\* allows every host.
C30_Witness ==
  /\ g_result = "rejected"
  /\ g_allowed = <<<<"*">>>>
  /\ g_parts.scheme = HTTPS /\ g_parts.host = <<"[", "e">>

\* C31: an operation under @require_initialization, called on an initialized session whose
\* agent tab is closed and whose context has no open tab, opens a new tab and runs without
\* an assertion failure.
C31_DecoratedOperationOpensATab ==
  [][(/\ last'.op \in DecoratedOperations
      /\ session.initialized
      /\ session.pages = <<>>) =>
       (last'.err # "AssertionError" /\ session'.created = session.created + 1)]_vars

\* C32: when get_current_page returns on a session that has a context: if no tab was open,
\* exactly one new blank tab is open and is both the agent and the human tab; if exactly one
\* of the two references was null or closed, it has taken the other's tab and no tab was
\* opened; and in every case both references are open tabs.
C32_GetCurrentPageRepairsReferences ==
  [][(last'.op = "get_current_page" /\ last'.err = "ok") =>
       /\ (session.browser_context # NULL /\ session.pages = <<>>) =>
            /\ session'.created = session.created + 1
            /\ session'.pages = <<session'.created>>
            /\ session'.url[session'.created] = ABOUT_BLANK
            /\ session'.agent_current_page = session'.created
            /\ session'.human_current_page = session'.created
       /\ ( /\ session.browser_context # NULL
            /\ Gone(session, session.agent_current_page) # Gone(session, session.human_current_page) ) =>
            /\ session'.pages = session.pages
            /\ session'.created = session.created
            /\ session'.agent_current_page = session'.human_current_page
            /\ session'.agent_current_page \in {session.agent_current_page, session.human_current_page}
       /\ ~Gone(session', session'.agent_current_page)
       /\ ~Gone(session', session'.human_current_page)
       /\ last'.ret = session'.agent_current_page]_vars

\* C32 witness: get_current_page has returned the second tab of the session, blank, the
\* only one open and both the agent and the human tab.
C32_Witness ==
  /\ last.op = "get_current_page" /\ last.err = "ok"
  /\ session.created = 2 /\ session.pages = <<2>> /\ last.ret = 2
  /\ session.url[2] = ABOUT_BLANK
  /\ session.agent_current_page = 2 /\ session.human_current_page = 2

\* C33: close_current_tab closes the agent's tab and, when tabs remain, makes the first
\* remaining tab the agent tab; a human tab that was another, still open tab stays the human
\* tab, and both references change only when they pointed at the same closed tab.
C33_CloseCurrentTabKeepsHumanTab ==
  [][(last'.op = "close_current_tab" /\ last'.err = "ok") =>
       /\ session.agent_current_page \notin Range(session'.pages)
       /\ session'.pages # <<>> => session'.agent_current_page = session'.pages[1]
       /\ ( /\ session.human_current_page # session.agent_current_page
            /\ ~Gone(session, session.human_current_page) ) =>
            session'.human_current_page = session.human_current_page]_vars

\* C34: with use_human_like_mouse on, text input moves the pointer to the element with
\* the movement service before the focusing click and types one character per call; the
\* typing of the whole text in one call is used only with the option off.
C34_HumanLikeTextInput ==
  (calc.pc = "done" /\ calc.input.use_human_like_mouse) =>
    /\ \A i \in DOMAIN calc.output.steps :
         calc.output.steps[i] = "click" => (i > 1 /\ calc.output.steps[i - 1] = "move_mouse_to_element")
    /\ \A i \in DOMAIN calc.output.steps :
         calc.output.steps[i] \notin {"clear+type", "keyboard.type"}

\* C35: the pointer position is kept across page loads: the first movement after the agent
\* tab loaded a page starts where the previous movement ended, not at the centre of the
\* viewport.
C35_MovementStartsWherePreviousEnded ==
  [][(/\ calc.pc = "pointer" /\ calc.output.loaded_since
      /\ calc.output._stored_position # NoPoint
      /\ ~calc'.output.loaded_since) =>
       calc'.output.start = calc.output._stored_position]_vars

\* C36: once stop() has shut the browser down (keep_alive not in force) the session is
\* destroyed: initialized is false, the agent and human references are null, and an
\* operation under @require_initialization fails with the not-initialized error.
C36_StopDestroysSession ==
  [][(calc'.pc = "stopped" /\ calc'.output) =>
       /\ ~session'.initialized
       /\ session'.agent_current_page = NoPage
       /\ session'.human_current_page = NoPage
       /\ last'.op \in DecoratedOperations => last'.err = NotInitializedError]_vars

\* C37: no save_cookies task created by get_state_summary reads the browser context after
\* stop() closed it: stop() cancels or waits for every task in flight before it closes
\* the context.
C37_NoCookieTaskReadsClosedContext ==
  calc.pc = "tasks" =>
    /\ \A t \in DOMAIN calc.output.tasks : calc.output.tasks[t].context_read # "closed"
    /\ calc.output.context = "closed" =>
         \A t \in DOMAIN calc.output.tasks : calc.output.tasks[t].pc \in {"written", "raised"}

C39_NotifyNeverRaises ==
  [][calc.pc = "notify" =>
       /\ calc'.output.notify.pc # "raised"
       /\ (calc.output.notify.pc # "returned" /\ calc'.output.notify.pc = "returned") =>
            /\ calc'.output.active_connections.has_job => calc'.output.active_connections.set # {}
            /\ calc.output.notify.connection \in calc.output.closed =>
                 calc.output.notify.connection \notin calc'.output.active_connections.set]_vars

\* C40: a job goes from queued to processing to exactly one of completed and failed and
\* stays there; every WebSocket client connected when the job ends is notified once, after
\* the terminal status and completed_at are stored, with the status job_store holds.
C40_JobEndsOnceAndClientsAreNotified ==
  [][calc.pc = "notify" =>
       /\ calc'.output.job_store.status # calc.output.job_store.status =>
            <<calc.output.job_store.status, calc'.output.job_store.status>> \in
              { <<"None", "queued">>, <<"queued", "processing">>,
                <<"processing", "completed">>, <<"processing", "failed">> }
       /\ \A w \in WebSockets :
            (/\ calc'.output.sent[w] # calc.output.sent[w]
             /\ calc'.output.sent[w][Len(calc'.output.sent[w])].by = "notify") =>
              /\ calc.output.job_store.status \in {"completed", "failed"}
              /\ calc.output.job_store.completed_at
              /\ calc'.output.sent[w][Len(calc'.output.sent[w])].status = calc.output.job_store.status
              /\ \A i \in DOMAIN calc.output.sent[w] : calc.output.sent[w][i].by # "notify"
       /\ calc'.output.notify.pc \in {"returned", "raised"} =>
            \A w \in calc'.output.notify.connections_to_notify \ calc'.output.closed :
              \E i \in DOMAIN calc'.output.sent[w] : calc'.output.sent[w][i].by = "notify"]_vars

\* C10 witness: https://example.com@evil.com was rejected under ["example.com"]
C10_Witness ==
  /\ g_result = "rejected"
  /\ g_allowed = <<EXAMPLE_COM>>
  /\ g_parts.scheme = HTTPS /\ g_parts.host = EVIL_COM /\ g_parts.d.userinfo = EXAMPLE_COM

====
